---- MODULE Spec2Model ----
(***************************************************************************)
(* Miniko: the step-trace engines of src/src/App.tsx (buildGenericTrace,   *)
(* buildJavaTrace, buildCStyleTrace behind buildTraceForCode), the toy     *)
(* interpreter runMiniko of src/src/lib/minikoInterpreter.ts and the       *)
(* worker sandbox runJavaScript of src/src/lib/jsSandbox.ts.               *)
(*                                                                         *)
(* A source line is a record: `kind` names the statement pattern (regular  *)
(* expression) of the engine that the line's text matches, the other       *)
(* fields are that pattern's captures.  `br` lists the brace characters of *)
(* the line in order, `indent` is its leading white space, `els` says      *)
(* whether the text contains the word else.                                *)
(***************************************************************************)
EXTENDS Integers, Sequences, FiniteSets, TLC

VARIABLES
    mode,          \* entry point of this run: "engine" | "miniko" | "sandbox"
    input,         \* arguments of the call
    vars,          \* the live Map `vars` of the run
    arrays,        \* heap of number[] objects, addressed by position
    outputs,       \* the live `outputs` / `output` array
    trace,         \* the live `trace` array
    step,          \* the `step` counter
    stack,         \* active runBlock calls, innermost last
    result,        \* value returned to the caller, <<>> while running
    pc,            \* runMiniko: program counter
    loopCounters,  \* runMiniko: Map loop line -> remaining iterations
    sandbox,       \* runJavaScript: closure state, worker, timer, promise
    ai             \* handleAiExplain: aiStatus, aiAnswer and the pending call

allVars == <<mode, input, vars, arrays, outputs, trace, step, stack, result,
             pc, loopCounters, sandbox, ai>>

(***************************************************************************)
(* Bounds of the model and constants of the program.                       *)
(***************************************************************************)
MaxJavaIterations == 40
MaxLogs == 2
MaxFinite == 1000000000
MAX_STEPS == 15
LoopGuard == 100

(***************************************************************************)
(* Values, tokens and lines.                                               *)
(***************************************************************************)
NumV(n) == [t |-> "num", v |-> n]
ArrV(r) == [t |-> "arr", v |-> r]
Undefined == [t |-> "undefined", v |-> 0]

Num(n) == [k |-> "num", n |-> n, name |-> "", at |-> <<>>]
Var(x) == [k |-> "var", n |-> 0, name |-> x, at |-> <<>>]
Str(s) == [k |-> "str", n |-> 0, name |-> s, at |-> <<>>]
NoTok  == [k |-> "none", n |-> 0, name |-> "", at |-> <<>>]
\* a text that is neither a number nor a name, such as `[4]` or `a - 2`
Text(s) == [k |-> "text", n |-> 0, name |-> s, at |-> <<>>]
\* name.length, name.Length
Length(x) == [k |-> "length", n |-> 0, name |-> x, at |-> <<>>]
\* len(name)
LenCall(x) == [k |-> "len", n |-> 0, name |-> x, at |-> <<>>]
\* name[index]
Index(x, index) == [k |-> "index", n |-> 0, name |-> x, at |-> <<index>>]
\* the numeric literal n + 1/2
Frac(n) == [k |-> "frac", n |-> n, name |-> "", at |-> <<>>]

Line0 == [kind |-> "plain", tgt |-> "", op |-> "", a |-> NoTok, b |-> NoTok,
          start |-> NoTok, items |-> <<>>, indent |-> 0, br |-> <<>>,
          els |-> FALSE, lst |-> FALSE, init |-> <<>>, upd |-> <<>>,
          text |-> "", fmt |-> <<>>]

Min(a, b) == IF a < b THEN a ELSE b
Max(a, b) == IF a > b THEN a ELSE b

\* Map.get
MapGet(m, key) == IF key \in DOMAIN m THEN m[key] ELSE Undefined
\* Map.set
MapSet(m, key, val) == [x \in (DOMAIN m) \cup {key} |-> IF x = key THEN val ELSE m[x]]

isArray(v) == v.t = "arr"

resolveNumericValue(value) == IF value.t = "num" THEN value.v ELSE 0

resolveNumericNames(value, m, heap) ==
    IF value.k = "num" THEN value.n ELSE resolveNumericValue(MapGet(m, value.name))

RECURSIVE resolveNumeric(_, _, _)
\* Number(token) is a number for a numeric literal; name.length, len(name)
\* and name[index] read a list binding; otherwise the token resolves as a
\* name through the store, and a list-valued or unbound name gives 0.
resolveNumeric(value, m, heap) ==
    LET arrayValue == MapGet(m, value.name) IN
    IF value.k = "num" THEN value.n
    ELSE IF value.k \in {"length", "len"} /\ isArray(arrayValue)
         THEN Len(heap[arrayValue.v])
    ELSE IF value.k = "index" /\ isArray(arrayValue)
         THEN LET resolvedIndex == resolveNumeric(value.at[1], m, heap) IN
              IF 0 <= resolvedIndex /\ resolvedIndex < Len(heap[arrayValue.v])
              THEN heap[arrayValue.v][resolvedIndex + 1]
              ELSE 0
    ELSE IF value.k = "var" THEN resolveNumericValue(arrayValue)
    ELSE 0

\* Numbers are doubles.  MaxFinite stands for Number.MAX_VALUE, scaled to the
\* range of the model's integers: a result beyond it is Infinity, and the
\* operations on Infinity and NaN are those of the language.  Values are
\* integral: a quotient is cut to a whole number.
Infinity == MaxFinite + 1
NaN == MaxFinite + 2
isFinite(x) == -MaxFinite <= x /\ x <= MaxFinite

\* left + right, left - right, left * right, left / right
arith(operator, a, b) ==
    LET abs(x) == IF x < 0 THEN -x ELSE x
        sgn(x) == IF x < 0 THEN -1 ELSE 1
        neg(x) == IF x = NaN THEN NaN ELSE -x
        round(x) == IF x > MaxFinite THEN Infinity
                    ELSE IF x < -MaxFinite THEN -Infinity ELSE x
        plus(x, y) ==
            IF x = NaN \/ y = NaN THEN NaN
            ELSE IF ~isFinite(x) THEN (IF ~isFinite(y) /\ y # x THEN NaN ELSE x)
            ELSE IF ~isFinite(y) THEN y
            ELSE round(x + y)
        times(x, y) ==
            IF x = NaN \/ y = NaN THEN NaN
            ELSE IF x = 0 \/ y = 0 THEN (IF isFinite(x) /\ isFinite(y) THEN 0 ELSE NaN)
            ELSE IF ~isFinite(x) \/ ~isFinite(y) THEN sgn(x) * sgn(y) * Infinity
            ELSE IF abs(x) > MaxFinite \div abs(y) THEN sgn(x) * sgn(y) * Infinity
            ELSE x * y
        over(x, y) ==
            IF x = NaN \/ y = NaN THEN NaN
            ELSE IF ~isFinite(x) /\ ~isFinite(y) THEN NaN
            ELSE IF ~isFinite(x) THEN sgn(x) * sgn(y) * Infinity
            ELSE IF ~isFinite(y) THEN 0
            ELSE IF y = 0 THEN (IF x = 0 THEN NaN ELSE sgn(x) * Infinity)
            ELSE sgn(x) * sgn(y) * (abs(x) \div abs(y))
    IN CASE operator = "+" -> plus(a, b)
         [] operator = "-" -> plus(a, neg(b))
         [] operator = "*" -> times(a, b)
         [] operator = "/" -> over(a, b)

numberStringLocale(x) ==
    IF input.locale = "es" THEN ToString(x) \o ",0" ELSE ToString(x)

\* locale === 'es' ? <Spanish text> : <English text>
label(en) ==
    IF input.locale # "es" THEN en
    ELSE CASE en = "Output" -> "Salida"
         [] en = "Updates variable with operator" -> "Actualiza variable con operador"
         [] en = "List assignment" -> "Asignación de lista"
         [] en = "Assignment" -> "Asignación"
         [] en = "Execution" -> "Ejecución"
         [] en = "Update variable" -> "Actualiza variable"
         [] en = "Increment" -> "Incremento"
         [] en = "Decrement" -> "Decremento"
         [] en = "Array declaration" -> "Declaración de array"
         [] en = "Declaration and assignment" -> "Declaración y asignación"
         [] en = "Declaration" -> "Declaración"
         [] en = "List declaration" -> "Declaración de lista"
         [] en = "Vector declaration" -> "Declaración de vector"
         [] en = "Loop" -> "Bucle"
         [] en = "Condition: true" -> "Condición: verdadero"
         [] en = "Condition: false" -> "Condición: falso"

\* `${value}` for a number
numberString(x) ==
    IF x = NaN THEN "NaN"
    ELSE IF x = Infinity THEN "Infinity"
    ELSE IF x = -Infinity THEN "-Infinity"
    ELSE ToString(x)

applyOperator(left, right, operator) ==
    CASE operator = "+" -> arith("+", left, right)
      [] operator = "-" -> arith("-", left, right)
      [] operator = "*" -> arith("*", left, right)
      [] operator = "/" -> IF right = 0 THEN left ELSE arith("/", left, right)
      [] OTHER -> left

\* a comparison with NaN is false, except !=
compare(left, right, op) ==
    CASE left = NaN \/ right = NaN -> op = "!="
      [] op = "<"  -> left < right
      [] op = "<=" -> left <= right
      [] op = ">"  -> left > right
      [] op = ">=" -> left >= right
      [] op = "==" -> left = right
      [] op = "!=" -> left # right
      [] OTHER -> FALSE

\* condition = <left token, comparator, right token>; a text without a
\* comparator (op = "") does not match and is false.
evaluateCondition(l, op, r, m, heap) ==
    compare(resolveNumeric(l, m, heap), resolveNumeric(r, m, heap), op)

(***************************************************************************)
(* Rendering of values (stringifyValue, renderValue, the print helpers).   *)
(***************************************************************************)
\* what trim() strips; "  " is what a tab becomes in buildGenericTrace
Whitespace == {" ", "  ", "\t", "\n"}
trimNothing(s) == s
RECURSIVE trim(_)
\* String.prototype.trim
trim(s) ==
    IF Len(s) > 0 /\ Head(s) \in Whitespace THEN trim(Tail(s))
    ELSE IF Len(s) > 0 /\ s[Len(s)] \in Whitespace THEN trim(SubSeq(s, 1, Len(s) - 1))
    ELSE s

RECURSIVE join(_, _)
\* Array.prototype.join on strings
join(parts, sep) ==
    IF Len(parts) = 0 THEN ""
    ELSE IF Len(parts) = 1 THEN parts[1]
    ELSE parts[1] \o sep \o join(Tail(parts), sep)

numberStrings(list) == [i \in 1..Len(list) |-> numberString(list[i])]

stringifyValueBelow8(value, heap) ==
    IF isArray(value)
    THEN LET list == heap[value.v] IN
         IF Len(list) < 8
         THEN "[" \o join(numberStrings(list), ", ") \o "]"
         ELSE "[" \o join(numberStrings(SubSeq(list, 1, 3)), ", ") \o ", ..., "
                  \o join(numberStrings(SubSeq(list, Len(list) - 1, Len(list))), ", ")
                  \o "] (" \o ToString(Len(list)) \o " items)"
    ELSE numberString(value.v)

\* lists of at most 8 items in full, longer ones elided
stringifyValue(value, heap) ==
    IF isArray(value)
    THEN LET list == heap[value.v] IN
         IF Len(list) <= 8
         THEN "[" \o join(numberStrings(list), ", ") \o "]"
         ELSE "[" \o join(numberStrings(SubSeq(list, 1, 3)), ", ") \o ", ..., "
                  \o join(numberStrings(SubSeq(list, Len(list) - 1, Len(list))), ", ")
                  \o "] (" \o ToString(Len(list)) \o " items)"
    ELSE numberString(value.v)

\* quoted literal -> its text; bound name -> stringified value; otherwise
\* the numeric resolution
renderValue(expr, m, heap) ==
    IF expr.k = "str" THEN expr.name
    ELSE IF expr.k = "var" /\ expr.name \in DOMAIN m
         THEN stringifyValue(m[expr.name], heap)
    ELSE numberString(resolveNumeric(expr, m, heap))

renderAll(args, m, heap) == [i \in 1..Len(args) |-> renderValue(args[i], m, heap)]

RECURSIVE nonEmpty(_)
\* Array.prototype.filter((value) => value.length > 0)
nonEmpty(parts) ==
    IF Len(parts) = 0 THEN <<>>
    ELSE IF parts[1] = "" THEN nonEmpty(Tail(parts))
    ELSE <<parts[1]>> \o nonEmpty(Tail(parts))

\* print(a, b, ...) / console.log(a, b, ...)
resolvePrint(args, m, heap) == join(nonEmpty(renderAll(args, m, heap)), " ")

\* System.out.println(a + b + ...)
renderJavaPrint(args, m, heap) == join(renderAll(args, m, heap), "")

RECURSIVE trimParts(_)
\* String.prototype.trim on parts joined by one space: empty parts at either
\* end leave only separators, which trim removes
trimParts(parts) ==
    IF Len(parts) = 0 THEN parts
    ELSE IF parts[1] = "" THEN trimParts(Tail(parts))
    ELSE IF parts[Len(parts)] = "" THEN trimParts(SubSeq(parts, 1, Len(parts) - 1))
    ELSE parts

\* Console.WriteLine(a, b) / fmt.Println(a, b)
renderConcatArgs(args, m, heap) == join(trimParts(renderAll(args, m, heap)), " ")

\* A format string is a sequence of pieces: literal text, the placeholders
\* %d, %s, %f and {}, and the two characters \n.
PercentPlaceholders == {"%d", "%s", "%f"}

RECURSIVE replaceFirst(_, _)
\* output.replace(/%[dsf]/, value): the first match only
replaceFirst(pieces, value) ==
    IF Len(pieces) = 0 THEN <<>>
    ELSE IF Head(pieces) \in PercentPlaceholders THEN <<value>> \o Tail(pieces)
    ELSE <<Head(pieces)>> \o replaceFirst(Tail(pieces), value)

RECURSIVE replaceEach(_, _)
\* for (let i = 1; i < parts.length; i += 1) output = output.replace(...)
replaceEach(pieces, values) ==
    IF Len(values) = 0 THEN pieces
    ELSE replaceEach(replaceFirst(pieces, Head(values)), Tail(values))

RECURSIVE without(_, _)
\* output.replace(/\\n/g, '')
without(pieces, p) ==
    IF Len(pieces) = 0 THEN <<>>
    ELSE IF Head(pieces) = p THEN without(Tail(pieces), p)
    ELSE <<Head(pieces)>> \o without(Tail(pieces), p)

\* printf(format, a, b, ...), fmt.Printf(...), println!(...)
renderPrintf(format, args, m, heap) ==
    IF \A i \in 1..Len(format) : format[i] \notin PercentPlaceholders
    THEN join(trimParts(<<join(format, "")>> \o renderAll(args, m, heap)), " ")
    ELSE join(trim(without(replaceEach(format, renderAll(args, m, heap)), "\\n")), "")

\* the print patterns of the C-style engine; "" when none matches
renderCStylePrint(line, m, heap) ==
    IF line.kind # "print" THEN ""
    ELSE CASE line.op \in {"printf", "fmt.Printf", "println!"} ->
                renderPrintf(line.fmt, line.items, m, heap)
           [] line.op \in {"Console.WriteLine", "fmt.Println"} ->
                renderConcatArgs(line.items, m, heap)
           [] OTHER -> ""

(***************************************************************************)
(* Trace entries.  An entry holds references to objects: `before`, `after` *)
(* and the two output lists are handles, either a private copy or the live *)
(* object of the run.                                                      *)
(***************************************************************************)
Copy(val) == [live |-> FALSE, val |-> val]
Live == [live |-> TRUE, val |-> <<>>]

snapshotMapAliased(m) == Live
\* a fresh Record with the entries of the Map
snapshotMap(m) == Copy(m)

copyOutputsAliased(out) == Live
\* [...outputs]
copyOutputs(out) == Copy(out)

nextStepStuck(s) == s
\* step += 1
nextStep(s) == s + 1

Run == [vars |-> vars, arrays |-> arrays, outputs |-> outputs,
        trace |-> trace, step |-> step]

pushTrace(st, text, action, before, after, outputsBefore, outputsAfter, op, outputLine) ==
    [st EXCEPT
       !.trace = Append(@, [step |-> st.step, line |-> text, note |-> action,
                            action |-> action, before |-> before, after |-> after,
                            outputsBefore |-> outputsBefore,
                            outputsAfter |-> outputsAfter,
                            outputLine |-> outputLine, op |-> op]),
       !.step = nextStep(st.step)]

\* vars.set(target, value) followed by the pushTrace call of a statement
setAndPush(st, line, action, target, value, op) ==
    LET s1 == [st EXCEPT !.vars = MapSet(@, target, value)] IN
    pushTrace(s1, line.text, action, snapshotMap(st.vars), snapshotMap(s1.vars),
              copyOutputs(st.outputs), copyOutputs(s1.outputs), op, <<>>)

\* outputs.push(out) followed by the pushTrace call of a print
printAndPush(st, line, out) ==
    LET s1 == [st EXCEPT !.outputs = Append(@, out)] IN
    pushTrace(s1, line.text, label("Output"), snapshotMap(st.vars), snapshotMap(s1.vars),
              copyOutputs(st.outputs), copyOutputs(s1.outputs), <<>>, <<out>>)

pushUnchangedSilent(st, line, action) == st
\* the fallback entry of executeLine, and the entry of a condition
pushUnchanged(st, line, action) ==
    pushTrace(st, line.text, action, snapshotMap(st.vars), snapshotMap(st.vars),
              copyOutputs(st.outputs), copyOutputs(st.outputs), <<>>, <<>>)

\* parseNumericList: a fresh array holding the resolved items
parseNumericList(items, m, heap) == [i \in 1..Len(items) |-> resolveNumeric(items[i], m, heap)]

\* binds target to a newly allocated array
setListAndPush(st, line, action, values) ==
    LET s1 == [st EXCEPT !.arrays = Append(@, values)] IN
    setAndPush(s1, line, action, line.tgt, ArrV(Len(s1.arrays)), <<>>)

opRecord(leftValue, operator, rightValue, res, target) ==
    <<[left |-> numberString(leftValue), operator |-> operator,
       right |-> numberString(rightValue), result |-> res, target |-> target]>>

\* x op= expr
compoundAssign(st, line, action) ==
    LET leftValue == resolveNumericValue(MapGet(st.vars, line.tgt))
        rightValue == resolveNumeric(line.b, st.vars, st.arrays)
        res == applyOperator(leftValue, rightValue, line.op)
    IN setAndPush(st, line, action, line.tgt, NumV(res),
                  opRecord(leftValue, line.op, rightValue, res, line.tgt))

\* x++; and x--;
incDec(st, line, action, operator) ==
    LET leftValue == resolveNumericValue(MapGet(st.vars, line.tgt))
        res == arith(operator, leftValue, 1)
    IN setAndPush(st, line, action, line.tgt, NumV(res),
                  opRecord(leftValue, operator, 1, res, line.tgt))

\* The expression on the right of `=`: operand and operator tokens in text
\* order.  A line with one operator holds it as a, op, b; a longer one holds
\* its tokens in `items`.  Operands carry no sign of their own.
Op(o) == [k |-> "op", n |-> 0, name |-> o, at |-> <<>>]
exprOf(line) ==
    IF Len(line.items) > 0 THEN line.items
    ELSE IF line.op # "" THEN <<line.a, Op(line.op), line.b>>
    ELSE <<line.a>>

\* resolveNumeric of a text: a text of several tokens is no number, no
\* length, no element and no name that is bound
resolveExpr(expr, m, heap) == IF Len(expr) = 1 THEN resolveNumeric(expr[1], m, heap) ELSE 0

\* expr.match(/^(.+)\s*([+\-*/])\s*(.+)$/): the first group is greedy, so the
\* operator matched is the last one that has text on both sides; <<>> is null
parseBinary(expr, m, heap) ==
    LET at == {i \in 2..(Len(expr) - 1) : expr[i].k = "op"} IN
    IF at = {} THEN <<>>
    ELSE LET p == CHOOSE i \in at : \A j \in at : i >= j
             leftValue == resolveExpr(SubSeq(expr, 1, p - 1), m, heap)
             rightValue == resolveExpr(SubSeq(expr, p + 1, Len(expr)), m, heap)
         IN <<[left |-> leftValue, operator |-> expr[p].name, right |-> rightValue,
               result |-> applyOperator(leftValue, rightValue, expr[p].name)]>>

\* operation?.result ?? resolveNumeric(expr, vars), with the operation as op
assignExpr(st, line, action) ==
    LET operation == parseBinary(exprOf(line), st.vars, st.arrays) IN
    IF Len(operation) = 1
    THEN setAndPush(st, line, action, line.tgt, NumV(operation[1].result),
                    opRecord(operation[1].left, operation[1].operator,
                             operation[1].right, operation[1].result, line.tgt))
    ELSE setAndPush(st, line, action, line.tgt,
                    NumV(resolveExpr(exprOf(line), st.vars, st.arrays)), <<>>)

\* executeLine of buildGenericTrace
executeLineGeneric(st, line) ==
    CASE line.kind = "compound" ->
           compoundAssign(st, line, label("Updates variable with operator"))
      [] line.kind = "assign" /\ line.lst ->
           setListAndPush(st, line, label("List assignment"),
                          parseNumericList(line.items, st.vars, st.arrays))
      [] line.kind = "assign" /\ ~line.lst ->
           assignExpr(st, line, label("Assignment"))
      [] line.kind = "print" ->
           printAndPush(st, line, resolvePrint(line.items, st.vars, st.arrays))
      [] OTHER -> pushUnchanged(st, line, label("Execution"))

\* executeLine of buildJavaTrace
executeLineJava(st, line) ==
    CASE line.kind = "compound" -> compoundAssign(st, line, label("Update variable"))
      [] line.kind = "inc" -> incDec(st, line, label("Increment"), "+")
      [] line.kind = "dec" -> incDec(st, line, label("Decrement"), "-")
      [] line.kind = "arrayinit" ->
           setListAndPush(st, line, label("Array declaration"),
                          parseNumericList(line.items, st.vars, st.arrays))
      [] line.kind = "declassign" ->
           assignExpr(st, line, label("Declaration and assignment"))
      [] line.kind = "intdecl" ->
           setAndPush(st, line, label("Declaration"), line.tgt, NumV(0), <<>>)
      [] line.kind = "assign" -> assignExpr(st, line, label("Assignment"))
      [] line.kind = "print" ->
           printAndPush(st, line, renderJavaPrint(line.items, st.vars, st.arrays))
      [] OTHER -> pushUnchanged(st, line, label("Execution"))

\* executeLine of buildCStyleTrace
executeLineCStyle(st, line) ==
    CASE line.kind = "compound" -> compoundAssign(st, line, label("Update variable"))
      [] line.kind = "inc" -> incDec(st, line, label("Increment"), "+")
      [] line.kind = "dec" -> incDec(st, line, label("Decrement"), "-")
      [] line.kind = "godecl" /\ line.lst ->
           setListAndPush(st, line, label("List declaration"),
                          parseNumericList(line.items, st.vars, st.arrays))
      [] line.kind = "godecl" /\ ~line.lst ->
           setAndPush(st, line, label("Declaration and assignment"), line.tgt,
                      NumV(resolveExpr(exprOf(line), st.vars, st.arrays)), <<>>)
      [] line.kind = "rustdecl" /\ line.lst ->
           setListAndPush(st, line, label("Vector declaration"),
                          parseNumericList(line.items, st.vars, st.arrays))
      [] line.kind = "rustdecl" /\ ~line.lst ->
           setAndPush(st, line, label("Declaration and assignment"), line.tgt,
                      NumV(resolveExpr(exprOf(line), st.vars, st.arrays)), <<>>)
      [] line.kind = "arrayinit" ->
           setListAndPush(st, line, label("Array declaration"),
                          parseNumericList(line.items, st.vars, st.arrays))
      [] line.kind = "declassign" ->
           setAndPush(st, line, label("Declaration and assignment"), line.tgt,
                      NumV(resolveExpr(exprOf(line), st.vars, st.arrays)), <<>>)
      [] line.kind = "assign" -> assignExpr(st, line, label("Assignment"))
      [] line.kind = "print" /\ renderCStylePrint(line, st.vars, st.arrays) # "" ->
           printAndPush(st, line, renderCStylePrint(line, st.vars, st.arrays))
      [] OTHER -> pushUnchanged(st, line, label("Execution"))

(***************************************************************************)
(* Block structure.  Line indices are 0-based as in the source.            *)
(***************************************************************************)
lines == input.lines
lineAt(i) == lines[i + 1]
lineCount == Len(lines)

RECURSIVE findBlockEnd(_, _, _)
\* first index >= start whose indent is <= parentIndent, or the line count
findBlockEnd(ls, start, parentIndent) ==
    IF start >= Len(ls) THEN Max(start, Len(ls))
    ELSE IF ls[start + 1].indent <= parentIndent THEN start
    ELSE findBlockEnd(ls, start + 1, parentIndent)

startsWithElse(line) == line.kind = "else"

findElseIndex(ls, start, parentIndent) ==
    IF start >= Len(ls) THEN -1
    ELSE IF ls[start + 1].indent = parentIndent /\ startsWithElse(ls[start + 1])
         THEN start
    ELSE -1

RECURSIVE braceScan(_, _, _, _, _)
\* the forEach over lines and their characters: `{` pushes the line index,
\* `}` pops and maps the popped index to the current one
braceScan(ls, index, col, braceStack, map) ==
    IF index >= Len(ls) THEN map
    ELSE IF col > Len(ls[index + 1].br) THEN braceScan(ls, index + 1, 1, braceStack, map)
    ELSE IF ls[index + 1].br[col] = "{"
         THEN braceScan(ls, index, col + 1, Append(braceStack, index), map)
    ELSE IF Len(braceStack) = 0 THEN braceScan(ls, index, col + 1, braceStack, map)
    ELSE braceScan(ls, index, col + 1,
                   SubSeq(braceStack, 1, Len(braceStack) - 1),
                   MapSet(map, braceStack[Len(braceStack)], index))

braceMap == braceScan(lines, 0, 1, <<>>, <<>>)

\* braceMap.get(index) ?? index
blockEndOf(index) == IF index \in DOMAIN braceMap THEN braceMap[index] ELSE index

\* (lines[i] ?? '').includes('else') and (lines[i] ?? '').startsWith('else')
includesElse(i) == i >= 0 /\ i < lineCount /\ lineAt(i).els
startsElse(i) == i >= 0 /\ i < lineCount /\ startsWithElse(lineAt(i))

\* a findElseBlock that looks for `else` on the block's closing line only
findElseBlockSameLine(ifEndIndex) ==
    IF includesElse(ifEndIndex) /\ ifEndIndex \in DOMAIN braceMap
    THEN <<[start |-> ifEndIndex + 1, end |-> braceMap[ifEndIndex]]>>
    ELSE <<>>

\* findElseBlock: <<>> for null, else <<[start, end]>>
findElseBlock(ifEndIndex) ==
    LET elseLineIndex == IF includesElse(ifEndIndex) THEN ifEndIndex
                         ELSE IF startsElse(ifEndIndex + 1) THEN ifEndIndex + 1
                         ELSE -1
    IN IF elseLineIndex = -1 THEN <<>>
       ELSE IF elseLineIndex \notin DOMAIN braceMap THEN <<>>
       ELSE <<[start |-> elseLineIndex + 1, end |-> braceMap[elseLineIndex]]>>

\* buildTraceForCode's dispatch on the language id
engineOf(languageId) ==
    IF languageId = "java" THEN "java"
    ELSE IF languageId \in {"c", "cpp", "csharp", "go", "rust"} THEN "cstyle"
    ELSE "generic"

engine == engineOf(input.languageId)

executeLine(st, line) ==
    CASE engine = "java" -> executeLineJava(st, line)
      [] engine = "cstyle" -> executeLineCStyle(st, line)
      [] OTHER -> executeLineGeneric(st, line)

(***************************************************************************)
(* runBlock, one step at a time.  A frame is one runBlock(start, end) call *)
(* with its local `index`; `loop` holds the locals of the loop statement   *)
(* the call is executing, if any.                                          *)
(***************************************************************************)
Frame(start, end) == [index |-> start, end |-> end, loop |-> <<>>]
top == stack[Len(stack)]
running == mode = "engine" /\ Len(result) = 0 /\ Len(stack) > 0
atLine == running /\ Len(top.loop) = 0 /\ top.index < top.end
current == lineAt(top.index)

setTop(f) == [stack EXCEPT ![Len(stack)] = f]
commit(st) ==
    /\ vars' = st.vars
    /\ arrays' = st.arrays
    /\ outputs' = st.outputs
    /\ trace' = st.trace
    /\ step' = st.step
otherUnchanged == UNCHANGED <<mode, input, result, pc, loopCounters, sandbox, ai>>

isIf(line) == line.kind = "if"
isLoop(line) ==
    CASE engine = "generic" -> line.kind \in {"forrange", "forlist"}
      [] engine = "java" -> line.kind = "forjava"
      [] OTHER -> line.kind \in {"for3", "forgo", "forrust", "forlist"}
isSkippedBrace(line) == engine = "java" /\ line.kind \in {"open", "close"}

\* the `{`, `}` and `};` lines that buildJavaTrace steps over
JavaSkipBrace ==
    /\ atLine /\ isSkippedBrace(current)
    /\ stack' = setTop([top EXCEPT !.index = @ + 1])
    /\ UNCHANGED <<vars, arrays, outputs, trace, step>>
    /\ otherUnchanged

\* executeLine(line); index += 1
ExecLine ==
    /\ atLine
    /\ ~isSkippedBrace(current) /\ ~isIf(current) /\ ~isLoop(current)
    /\ commit(executeLine(Run, current))
    /\ stack' = setTop([top EXCEPT !.index = @ + 1])
    /\ otherUnchanged

\* where the if statement at `index` sends control: the range of the branch
\* to run (<<>> for none) and the index at which the caller resumes
ifPlan(index, outcome) ==
    IF engine = "generic"
    THEN LET currentIndent == lineAt(index).indent
             blockEnd == findBlockEnd(lines, index + 1, currentIndent)
             elseIndex == findElseIndex(lines, blockEnd, currentIndent)
             elseBlockEnd == findBlockEnd(lines, elseIndex + 1, currentIndent)
         IN IF outcome
            THEN [branch |-> <<Frame(index + 1, blockEnd)>>,
                  resume |-> IF elseIndex # -1 THEN elseBlockEnd ELSE blockEnd]
            ELSE IF elseIndex # -1
                 THEN [branch |-> <<Frame(elseIndex + 1, elseBlockEnd)>>,
                       resume |-> elseBlockEnd]
                 ELSE [branch |-> <<>>, resume |-> blockEnd]
    ELSE LET blockEnd == blockEndOf(index)
             elseBlock == findElseBlock(blockEnd)
         IN IF outcome
            THEN [branch |-> <<Frame(index + 1, blockEnd)>>,
                  resume |-> IF Len(elseBlock) > 0 THEN elseBlock[1].end + 1
                             ELSE blockEnd + 1]
            ELSE IF Len(elseBlock) > 0
                 THEN [branch |-> <<Frame(elseBlock[1].start, elseBlock[1].end)>>,
                       resume |-> elseBlock[1].end + 1]
                 ELSE [branch |-> <<>>, resume |-> blockEnd + 1]

conditionNote(outcome) ==
    IF outcome THEN label("Condition: true") ELSE label("Condition: false")

\* the if statement: one condition entry, then the chosen branch
IfStep ==
    /\ atLine /\ isIf(current)
    /\ LET outcome == evaluateCondition(current.a, current.op, current.b, vars, arrays)
           plan == ifPlan(top.index, outcome)
       IN /\ commit(pushUnchanged(Run, current, conditionNote(outcome)))
          /\ stack' = setTop([top EXCEPT !.index = plan.resume]) \o plan.branch
    /\ otherUnchanged

\* runBlock returns to its caller
BlockReturn ==
    /\ running /\ Len(top.loop) = 0 /\ top.index >= top.end
    /\ stack' = SubSeq(stack, 1, Len(stack) - 1)
    /\ UNCHANGED <<vars, arrays, outputs, trace, step>>
    /\ otherUnchanged

slice(seq, from, to) == SubSeq(seq, from + 1, Min(to, Len(seq)))

\* a cut that keeps the last MAX_STEPS entries
truncateFromEnd(t) == SubSeq(t, Max(1, Len(t) - MAX_STEPS + 1), Len(t))
\* .slice(0, MAX_STEPS)
truncate(t) == slice(t, 0, MAX_STEPS)

\* buildTraceForCode returns the engine's trace cut to MAX_STEPS
Return ==
    /\ mode = "engine" /\ Len(result) = 0 /\ Len(stack) = 0
    /\ result' = <<truncate(trace)>>
    /\ UNCHANGED <<mode, input, vars, arrays, outputs, trace, step, stack,
                   pc, loopCounters, sandbox, ai>>

startStepKept(previous) == previous
\* let step = 1: the counter is a local of the call
startStep(previous) == 1

\* buildTraceForCode is called again on the same source, with the same or
\* the other locale (the effect runs again when the locale changes, and
\* getOutputFromTrace repeats the call): the engine starts on fresh locals,
\* the caller still holds the trace the earlier call returned
CallAgain ==
    /\ mode = "engine" /\ Len(result) = 1 /\ Len(input.earlier) = 0
    /\ ai.at = "none"
    /\ \E locale \in {"es", "en"} :
         input' = [input EXCEPT
                     !.locale = locale,
                     !.earlier = <<[locale |-> input.locale, trace |-> result[1]]>>]
    /\ vars' = <<>> /\ outputs' = <<>> /\ trace' = <<>> /\ step' = startStep(step)
    /\ result' = <<>>
    /\ stack' = <<Frame(0, Len(input.lines))>>
    /\ UNCHANGED <<mode, arrays, pc, loopCounters, sandbox, ai>>

(***************************************************************************)
(* Loop statements.                                                        *)
(***************************************************************************)
guardOkInclusive(guard) == guard <= LoopGuard
\* guard < 100
guardOk(guard) == guard < LoopGuard

\* Array.isArray(listValue) ? listValue : []  -- the address of the array the
\* loop iterates, 0 for the fresh empty array
listObject(listValue) == IF isArray(listValue) THEN listValue.v ELSE 0
listOf(ref, heap) == IF ref = 0 THEN <<>> ELSE heap[ref]

loopBlockEnd(index) ==
    IF engine = "generic"
    THEN findBlockEnd(lines, index + 1, lineAt(index).indent)
    ELSE blockEndOf(index)

\* Math.floor(resolveNumeric(text)); the literal n + 1/2 stands only where
\* the code rounds
mathFloor(value, m, heap) == IF value.k = "frac" THEN value.n ELSE resolveNumeric(value, m, heap)
mathCeil(value, m, heap) == IF value.k = "frac" THEN value.n + 1 ELSE resolveNumeric(value, m, heap)
\* Math.max(0, x), NaN for NaN
mathMax0(x) == IF x = NaN THEN NaN ELSE Max(0, x)

rangeLimitCeil(line, m, heap) == mathMax0(mathCeil(line.b, m, heap))
\* const limit = Math.max(0, Math.floor(countValue))
rangeLimit(line, m, heap) == mathMax0(mathFloor(line.b, m, heap))

\* the locals a loop statement holds when it starts
loopLocals(line, index, st) ==
    [form |-> line.kind, line |-> line, iterator |-> line.tgt,
     startValue |-> resolveNumeric(line.start, st.vars, st.arrays),
     i |-> IF line.kind \in {"forrange", "forlist"} THEN 0
           ELSE resolveNumeric(line.start, st.vars, st.arrays),
     limit |-> IF line.kind = "forrange" THEN rangeLimit(line, st.vars, st.arrays)
               ELSE resolveNumeric(line.b, st.vars, st.arrays),
     list |-> IF line.kind = "forlist"
              THEN listObject(MapGet(st.vars, line.b.name)) ELSE 0,
     guard |-> 0, phase |-> "test",
     bodyStart |-> index + 1, blockEnd |-> loopBlockEnd(index),
     resume |-> IF engine = "generic" THEN loopBlockEnd(index)
                ELSE loopBlockEnd(index) + 1]

\* what the statement does before its first test: the C-style loop runs
\* executeLine(init), the Go-style loop binds the iterator
loopInit(line, st) ==
    CASE line.kind = "for3" /\ Len(line.init) > 0 -> executeLineCStyle(st, line.init[1])
      [] line.kind = "forgo" ->
           [st EXCEPT !.vars = MapSet(@, line.tgt, NumV(resolveNumeric(line.start, st.vars, st.arrays)))]
      [] OTHER -> st

\* a for line that one of the engine's loop patterns matches
LoopEnter ==
    /\ atLine /\ isLoop(current)
    /\ commit(loopInit(current, Run))
    /\ stack' = setTop([top EXCEPT !.loop = <<loopLocals(current, top.index, Run)>>])
    /\ otherUnchanged

inLoop(phase) == running /\ Len(top.loop) = 1 /\ top.loop[1].phase = phase
loop == top.loop[1]

\* a loop that reads the list binding anew at every use
loopListCurrent(l, st) == listOf(listObject(MapGet(st.vars, l.line.b.name)), st.arrays)
\* the array the collection loop took hold of when it started
loopList(l, st) == listOf(l.list, st.arrays)

\* the loop's continuation test
loopCondition(l, st) ==
    CASE l.form = "forrange" -> compare(l.i, l.limit, "<")
      [] l.form = "forlist" -> l.i < Len(loopList(l, st))
      [] l.form = "forjava" -> compare(l.i, l.limit, l.line.op)
      [] l.form = "forrust" -> l.i <= l.limit
      [] OTHER -> guardOk(l.guard)
                  /\ evaluateCondition(l.line.a, l.line.op, l.line.b, st.vars, st.arrays)

loopNote(l, value, st) ==
    label("Loop") \o " " \o l.iterator \o " = " \o numberString(value) \o
    (CASE l.form \in {"forrange"} ->
            " (" \o ToString(l.i + 1) \o "/" \o ToString(l.limit) \o ")"
       [] l.form = "forlist" ->
            " (" \o ToString(l.i + 1) \o "/" \o ToString(Len(loopList(l, st))) \o ")"
       [] l.form = "forrust" ->
            " (" \o ToString(l.i - l.startValue + 1) \o "/"
                 \o ToString(l.limit - l.startValue + 1) \o ")"
       [] OTHER -> "")

\* the entry a loop pushes at the start of an iteration
loopEntry(l, st) ==
    CASE l.form \in {"forrange", "forjava", "forrust"} ->
           setAndPush(st, l.line, loopNote(l, l.i, st), l.iterator, NumV(l.i), <<>>)
      [] l.form = "forlist" ->
           setAndPush(st, l.line, loopNote(l, loopList(l, st)[l.i + 1], st),
                      l.iterator, NumV(loopList(l, st)[l.i + 1]), <<>>)
      [] l.form = "forgo" ->
           pushUnchanged(st, l.line,
                         loopNote(l, resolveNumericValue(MapGet(st.vars, l.iterator)), st))
      [] OTHER -> st

\* the condition holds: the iteration's entry, then runBlock on the body
LoopIterate ==
    /\ inLoop("test") /\ loopCondition(loop, Run)
    /\ loop.form = "forjava" => loop.i - loop.startValue < MaxJavaIterations
    /\ commit(loopEntry(loop, Run))
    /\ stack' = setTop([top EXCEPT !.loop[1].phase = "update"])
                  \o <<Frame(loop.bodyStart, loop.blockEnd)>>
    /\ otherUnchanged

\* the condition fails: index = blockEnd (+ 1)
LoopExit ==
    /\ inLoop("test") /\ ~loopCondition(loop, Run)
    /\ stack' = setTop([top EXCEPT !.index = loop.resume, !.loop = <<>>])
    /\ UNCHANGED <<vars, arrays, outputs, trace, step>>
    /\ otherUnchanged

\* what follows the body: i += 1, or the update clause and guard += 1
loopUpdate(l, st) ==
    CASE l.form = "for3" -> executeLineCStyle(st, l.line.upd[1])
      [] l.form = "forgo" /\ l.line.upd[1].kind = "inc" ->
           [st EXCEPT !.vars = MapSet(@, l.iterator,
                NumV(arith("+", resolveNumericValue(MapGet(st.vars, l.iterator)), 1)))]
      [] l.form = "forgo" /\ l.line.upd[1].kind = "dec" ->
           [st EXCEPT !.vars = MapSet(@, l.iterator,
                NumV(arith("-", resolveNumericValue(MapGet(st.vars, l.iterator)), 1)))]
      [] l.form = "forgo" -> executeLineCStyle(st, l.line.upd[1])
      [] OTHER -> st

LoopAdvance ==
    /\ inLoop("update")
    /\ commit(loopUpdate(loop, Run))
    /\ stack' = setTop([top EXCEPT
                          !.loop[1].phase = "test",
                          !.loop[1].i = IF loop.form \in {"for3", "forgo"} THEN @ ELSE @ + 1,
                          !.loop[1].guard = IF loop.form \in {"for3", "forgo"} THEN @ + 1 ELSE @])
    /\ otherUnchanged

(***************************************************************************)
(* runMiniko.  A line is [cmd, args, sep, text]: cmd is tokens[0] of the   *)
(* trimmed line ("" for a blank line, "#" for a comment), args the other   *)
(* tokens, sep the white space that follows the first token.               *)
(***************************************************************************)
MLine(cmd, args, text) == [cmd |-> cmd, args |-> args, sep |-> " ", text |-> text]
Tab == "\t"
\* a line whose first token is followed by a tab
MLineTab(cmd, args, text) == [MLine(cmd, args, text) EXCEPT !.sep = Tab]

arg(line, n) == IF Len(line.args) >= n THEN line.args[n] ELSE NoTok
tokenName(tok) ==
    CASE tok.k = "num" -> numberString(tok.n)
      [] tok.k = "none" -> "undefined"
      [] OTHER -> tok.name

\* !token -> 0; a numeric literal -> its value; else vars.get(token) ?? 0
resolveValue(token, m) ==
    CASE token.k = "none" -> 0
      [] token.k = "num" -> token.n
      [] OTHER -> IF token.name \in DOMAIN m THEN m[token.name] ELSE 0

applyMath(cmd, base, value) ==
    CASE cmd = "add" -> arith("+", base, value)
      [] cmd = "sub" -> arith("-", base, value)
      [] cmd = "mul" -> arith("*", base, value)
      [] cmd = "div" -> IF value = 0 THEN base ELSE arith("/", base, value)
      [] OTHER -> base

\* evaluateCondition of minikoInterpreter.ts over tokens.slice(1)
evaluateConditionTokens(line, m) ==
    compare(resolveValue(arg(line, 1), m), resolveValue(arg(line, 3), m),
            arg(line, 2).name)

\* the line tests of buildJumpMap, made on the trimmed text
startsWithIfSpace(line) == line.cmd = "if" /\ Len(line.args) > 0 /\ line.sep = " "
isEndifText(line) == line.cmd = "endif" /\ Len(line.args) = 0
startsWithLoopSpace(line) == line.cmd = "loop" /\ Len(line.args) > 0 /\ line.sep = " "
isEndText(line) == line.cmd = "end" /\ Len(line.args) = 0

popFirst(s) == Tail(s)
popKept(s) == s
\* Array.prototype.pop: the stack without its top
pop(s) == SubSeq(s, 1, Len(s) - 1)

RECURSIVE jumpScan(_, _, _, _, _)
\* lines.forEach of buildJumpMap with its two stacks
jumpScan(ls, index, ifStack, loopStack, maps) ==
    IF index >= Len(ls) THEN maps
    ELSE LET line == ls[index + 1] IN
      CASE startsWithIfSpace(line) ->
             jumpScan(ls, index + 1, Append(ifStack, index), loopStack, maps)
        [] isEndifText(line) ->
             IF Len(ifStack) = 0 THEN jumpScan(ls, index + 1, ifStack, loopStack, maps)
             ELSE jumpScan(ls, index + 1, pop(ifStack), loopStack,
                    [maps EXCEPT !.ifToEnd = MapSet(@, ifStack[Len(ifStack)], index)])
        [] startsWithLoopSpace(line) ->
             jumpScan(ls, index + 1, ifStack, Append(loopStack, index), maps)
        [] isEndText(line) ->
             IF Len(loopStack) = 0 THEN jumpScan(ls, index + 1, ifStack, loopStack, maps)
             ELSE jumpScan(ls, index + 1, ifStack, pop(loopStack),
                    [maps EXCEPT
                       !.loopToEnd = MapSet(@, loopStack[Len(loopStack)], index),
                       !.endToLoop = MapSet(@, index, loopStack[Len(loopStack)])])
        [] OTHER -> jumpScan(ls, index + 1, ifStack, loopStack, maps)

buildJumpMap(ls) ==
    jumpScan(ls, 0, <<>>, <<>>, [ifToEnd |-> <<>>, loopToEnd |-> <<>>, endToLoop |-> <<>>])

jumps == buildJumpMap(lines)

mkRunning == mode = "miniko" /\ Len(result) = 0 /\ pc < lineCount
mkLine == lineAt(pc)
mkAt(cmds) == mkRunning /\ mkLine.cmd \in cmds

\* trace.push({step, line, state: snapshot(vars), note}); step += 1.  `state`
\* holds the store that snapshot(vars) writes out; `at` is the index of the
\* executed line, kept to state properties of the run.
mkPushBefore(m, note) ==
    /\ trace' = Append(trace, [step |-> step, line |-> mkLine.text, state |-> vars,
                               note |-> note, at |-> pc])
    /\ step' = nextStep(step)

mkPush(m, note) ==
    /\ trace' = Append(trace, [step |-> step, line |-> mkLine.text, state |-> m,
                               note |-> note, at |-> pc])
    /\ step' = nextStep(step)

mkFrame == UNCHANGED <<mode, input, arrays, stack, result, sandbox, ai>>

\* blank lines and comments
MkSkip ==
    /\ mkAt({"", "#"})
    /\ pc' = pc + 1
    /\ UNCHANGED <<vars, outputs, trace, step, loopCounters>>
    /\ mkFrame

MkSet ==
    /\ mkAt({"set"})
    /\ LET name == tokenName(arg(mkLine, 1))
           value == resolveValue(arg(mkLine, 2), vars)
       IN /\ vars' = MapSet(vars, name, value)
          /\ mkPush(vars', "set " \o name \o " = " \o numberString(value))
    /\ pc' = pc + 1
    /\ UNCHANGED <<outputs, loopCounters>>
    /\ mkFrame

MkMath ==
    /\ mkAt({"add", "sub", "mul", "div"})
    /\ LET name == tokenName(arg(mkLine, 1))
           base == IF name \in DOMAIN vars THEN vars[name] ELSE 0
           value == resolveValue(arg(mkLine, 2), vars)
       IN /\ vars' = MapSet(vars, name, applyMath(mkLine.cmd, base, value))
          /\ mkPush(vars', mkLine.cmd \o " " \o name \o " " \o numberString(value))
    /\ pc' = pc + 1
    /\ UNCHANGED <<outputs, loopCounters>>
    /\ mkFrame

MkPrint ==
    /\ mkAt({"print"})
    /\ LET value == resolveValue(arg(mkLine, 1), vars)
       IN /\ outputs' = Append(outputs, numberString(value))
          /\ mkPush(vars, "print " \o numberString(value))
    /\ pc' = pc + 1
    /\ UNCHANGED <<vars, loopCounters>>
    /\ mkFrame

MkIf ==
    /\ mkAt({"if"})
    /\ IF ~evaluateConditionTokens(mkLine, vars)
       THEN /\ pc' = IF pc \in DOMAIN jumps.ifToEnd THEN jumps.ifToEnd[pc] + 1 ELSE pc + 1
            /\ mkPush(vars, "skip if")
       ELSE /\ pc' = pc + 1
            /\ mkPush(vars, "enter if")
    /\ UNCHANGED <<vars, outputs, loopCounters>>
    /\ mkFrame

MkEndif ==
    /\ mkAt({"endif"})
    /\ mkPush(vars, "end if")
    /\ pc' = pc + 1
    /\ UNCHANGED <<vars, outputs, loopCounters>>
    /\ mkFrame

\* Map.delete
MapDelete(m, key) == [x \in (DOMAIN m) \ {key} |-> m[x]]

loopCountStale(operand, m) == resolveValue(operand, m)
\* Math.max(0, resolveValue(tokens[1], vars))
loopCount(operand, m) == Max(0, resolveValue(operand, m))

MkLoop ==
    /\ mkAt({"loop"})
    /\ LET loopStart == pc
           count == loopCount(arg(mkLine, 1), vars)
           counters == IF loopStart \in DOMAIN loopCounters THEN loopCounters
                       ELSE MapSet(loopCounters, loopStart, count)
           remaining == counters[loopStart]
       IN IF remaining <= 0
          THEN /\ pc' = IF loopStart \in DOMAIN jumps.loopToEnd
                        THEN jumps.loopToEnd[loopStart] + 1 ELSE loopStart + 1
               /\ loopCounters' = MapDelete(counters, loopStart)
               /\ mkPush(vars, "skip loop")
          ELSE /\ pc' = pc + 1
               /\ loopCounters' = counters
               /\ mkPush(vars, "loop x" \o ToString(remaining))
    /\ UNCHANGED <<vars, outputs>>
    /\ mkFrame

decrementTwice(remaining) == remaining - 2
decrementNone(remaining) == remaining
\* (loopCounters.get(loopStart) ?? 0) - 1
decrement(remaining) == remaining - 1

MkEnd ==
    /\ mkAt({"end"})
    /\ IF pc \in DOMAIN jumps.endToLoop
       THEN LET loopStart == jumps.endToLoop[pc]
                remaining == decrement(IF loopStart \in DOMAIN loopCounters
                                       THEN loopCounters[loopStart] ELSE 0)
            IN IF remaining <= 0
               THEN /\ loopCounters' = MapDelete(loopCounters, loopStart)
                    /\ mkPush(vars, "end loop")
                    /\ pc' = pc + 1
               ELSE /\ loopCounters' = MapSet(loopCounters, loopStart, remaining)
                    /\ mkPush(vars, "repeat loop (" \o ToString(remaining) \o " left)")
                    /\ pc' = loopStart + 1
       ELSE /\ pc' = pc + 1
            /\ mkPush(vars, "")
            /\ UNCHANGED loopCounters
    /\ UNCHANGED <<vars, outputs>>
    /\ mkFrame

MkUnknown ==
    /\ mkRunning
    /\ mkLine.cmd \notin {"", "#", "set", "add", "sub", "mul", "div", "print",
                          "if", "endif", "loop", "end"}
    /\ mkPush(vars, "unknown command")
    /\ pc' = pc + 1
    /\ UNCHANGED <<vars, outputs, loopCounters>>
    /\ mkFrame

\* return { output, trace }
MkReturn ==
    /\ mode = "miniko" /\ Len(result) = 0 /\ pc >= lineCount
    /\ result' = <<[output |-> outputs, trace |-> trace]>>
    /\ UNCHANGED <<mode, input, vars, arrays, outputs, trace, step, stack,
                   pc, loopCounters, sandbox, ai>>

(***************************************************************************)
(* runJavaScript.  `sandbox` holds the closure of the promise executor     *)
(* (finished, logs, timer), the worker, the events in flight to the page   *)
(* and the promise.  The result object shares the `logs` array.            *)
(***************************************************************************)
sandboxStart ==
    [finished |-> FALSE, logs |-> <<>>, timer |-> "armed", terminated |-> FALSE,
     worker |-> "running", posted |-> 0, queue |-> <<>>, error |-> "none",
     scriptPosted |-> FALSE,
     resolveCalls |-> 0, promise |-> <<>>, settledBy |-> "none"]

\* resolve(value): the first call settles the promise, later calls are ignored
resolve(sb, value, by) ==
    [sb EXCEPT !.resolveCalls = @ + 1,
               !.promise = IF Len(@) = 0 THEN <<value>> ELSE @,
               !.settledBy = IF @ = "none" THEN by ELSE @]

onTimeoutSilent(sb) ==
    IF sb.finished THEN [sb EXCEPT !.timer = "fired"]
    ELSE [sb EXCEPT !.timer = "fired", !.finished = TRUE, !.terminated = TRUE]
\* the setTimeout callback
onTimeout(sb) ==
    IF sb.finished THEN [sb EXCEPT !.timer = "fired"]
    ELSE resolve([sb EXCEPT !.timer = "fired", !.finished = TRUE, !.terminated = TRUE],
                 [logs |-> Live, error |-> <<>>, timedOut |-> TRUE], "timer")

\* worker.onmessage
onMessage(sb, data) ==
    IF data.type = "log" THEN [sb EXCEPT !.logs = Append(@, data.log)]
    ELSE IF sb.finished THEN sb
    ELSE resolve([sb EXCEPT !.finished = TRUE, !.timer = "cleared", !.terminated = TRUE],
                 [logs |-> Live, error |-> data.error, timedOut |-> data.timedOut],
                 "message")

onErrorUnguarded(sb, message) ==
    resolve([sb EXCEPT !.finished = TRUE, !.timer = "cleared", !.terminated = TRUE],
            [logs |-> Live, error |-> <<message>>, timedOut |-> FALSE], "error")
\* worker.onerror
onError(sb, message) ==
    IF sb.finished THEN sb
    ELSE resolve([sb EXCEPT !.finished = TRUE, !.timer = "cleared", !.terminated = TRUE],
                 [logs |-> Live, error |-> <<message>>, timedOut |-> FALSE], "error")

sbRunning == mode = "sandbox"
workerRuns == sbRunning /\ sandbox.worker = "running" /\ ~sandbox.terminated
sbFrame == UNCHANGED <<mode, input, vars, arrays, outputs, trace, step, stack,
                       result, pc, loopCounters, ai>>

logText(n) == "log" \o ToString(n)

\* the script calls console.log: self.postMessage({ log: msg })
WorkerLog ==
    /\ workerRuns /\ sandbox.posted < MaxLogs
    /\ sandbox' = [sandbox EXCEPT
                     !.posted = @ + 1,
                     !.queue = Append(@, [type |-> "log", log |-> logText(sandbox.posted + 1),
                                          error |-> <<>>, timedOut |-> FALSE])]
    /\ sbFrame

\* fn() returns or throws: the completion message is posted
WorkerComplete ==
    /\ workerRuns
    /\ \E err \in {<<>>, <<"Error: boom">>} :
         sandbox' = [sandbox EXCEPT
                       !.worker = "done",
                       !.queue = Append(@, [type |-> "done", log |-> "",
                                            error |-> err, timedOut |-> FALSE])]
    /\ sbFrame

\* the script run by fn() calls the worker's postMessage itself, with an
\* object that has no `log` member
ScriptPost ==
    /\ workerRuns /\ ~sandbox.scriptPosted
    /\ sandbox' = [sandbox EXCEPT
                     !.scriptPosted = TRUE,
                     !.queue = Append(@, [type |-> "done", log |-> "",
                                          error |-> <<>>, timedOut |-> TRUE])]
    /\ sbFrame

\* an error escapes the worker's try block: an error event is queued
WorkerFault ==
    /\ sbRunning /\ ~sandbox.terminated /\ sandbox.error = "none"
    /\ sandbox' = [sandbox EXCEPT !.error = "raised"]
    /\ sbFrame

\* a message event reaches the page
DeliverMessage ==
    /\ sbRunning /\ Len(sandbox.queue) > 0
    /\ sandbox' = onMessage([sandbox EXCEPT !.queue = Tail(@)], Head(sandbox.queue))
    /\ sbFrame

\* the error event reaches the page
DeliverError ==
    /\ sbRunning /\ sandbox.error = "raised"
    /\ sandbox' = onError([sandbox EXCEPT !.error = "delivered"], "Uncaught")
    /\ sbFrame

\* timeoutMs have passed and the timer has not been cleared
TimerFire ==
    /\ sbRunning /\ sandbox.timer = "armed"
    /\ sandbox' = onTimeout(sandbox)
    /\ sbFrame

(***************************************************************************)
(* Inputs.  Each engine input is the line list the engine works on, after  *)
(* its comment and header filters.                                         *)
(***************************************************************************)
Stmt(kind, text, tgt, a, op, b) ==
    [Line0 EXCEPT !.kind = kind, !.text = text, !.tgt = tgt, !.a = a, !.op = op, !.b = b]
ListStmt(kind, text, tgt, items) ==
    [Line0 EXCEPT !.kind = kind, !.text = text, !.tgt = tgt, !.lst = TRUE, !.items = items]
PrintStmt(text, style, items) ==
    [Line0 EXCEPT !.kind = "print", !.text = text, !.op = style, !.items = items]
PrintfStmt(text, style, format, items) ==
    [Line0 EXCEPT !.kind = "print", !.text = text, !.op = style, !.fmt = format,
                  !.items = items]
ForStmt(kind, text, tgt, start, a, op, b) ==
    [Line0 EXCEPT !.kind = kind, !.text = text, !.tgt = tgt, !.start = start,
                  !.a = a, !.op = op, !.b = b]
For3(text, init, a, op, b, upd) ==
    [Line0 EXCEPT !.kind = "for3", !.text = text, !.init = <<init>>,
                  !.a = a, !.op = op, !.b = b, !.upd = <<upd>>]
GoFor(text, tgt, start, a, op, b, upd) ==
    [Line0 EXCEPT !.kind = "forgo", !.text = text, !.tgt = tgt, !.start = start,
                  !.a = a, !.op = op, !.b = b, !.upd = <<upd>>]
ExprStmt(kind, text, tgt, expr) ==
    [Line0 EXCEPT !.kind = kind, !.text = text, !.tgt = tgt, !.items = expr]
Plain(text) == [Line0 EXCEPT !.text = text]
ElseLine(text) == [Line0 EXCEPT !.kind = "else", !.text = text, !.els = TRUE]
Ind(line, n) == [line EXCEPT !.indent = n]
Br(line, br) == [line EXCEPT !.br = br]
Open == <<"{">>
Close == <<"}">>
OpenLine == Br([Line0 EXCEPT !.kind = "open", !.text = "{"], Open)
CloseLine == Br([Line0 EXCEPT !.kind = "close", !.text = "}"], Close)
CloseElseOpen == Br([Line0 EXCEPT !.text = "} else {", !.els = TRUE], <<"}", "{">>)
ElseOpen == Br(ElseLine("else {"), Open)

Input(languageId, ls) ==
    [languageId |-> languageId, locale |-> "en", lines |-> ls,
     code |-> <<>>, detected |-> <<>>, earlier |-> <<>>]

\* Scenario A
PyScenarioA ==
    << ListStmt("assign", "numeros = [10,20,30]", "numeros", <<Num(10), Num(20), Num(30)>>),
       Stmt("assign", "suma = 0", "suma", Num(0), "", NoTok),
       ForStmt("forlist", "for num in numeros:", "num", NoTok, NoTok, "", Var("numeros")),
       Ind(Stmt("compound", "suma += num", "suma", NoTok, "+", Var("num")), 2),
       PrintStmt("print(suma)", "print", <<Var("suma")>>) >>

\* the list is rebound inside the body
PyRebind ==
    << ListStmt("assign", "nums = [1,2]", "nums", <<Num(1), Num(2)>>),
       ForStmt("forlist", "for x in nums:", "x", NoTok, NoTok, "", Var("nums")),
       Ind(ListStmt("assign", "nums = [7,8,9]", "nums", <<Num(7), Num(8), Num(9)>>), 2),
       Ind(PrintStmt("print(x)", "print", <<Var("x")>>), 2),
       PrintStmt("print(nums)", "print", <<Var("nums")>>) >>

\* loops over a number, over an unbound name and over an empty list
PyNotList ==
    << Stmt("assign", "n = 5", "n", Num(5), "", NoTok),
       ForStmt("forlist", "for x in n:", "x", NoTok, NoTok, "", Var("n")),
       Ind(PrintStmt("print(x)", "print", <<Var("x")>>), 2),
       ForStmt("forlist", "for y in zz:", "y", NoTok, NoTok, "", Var("zz")),
       Ind(PrintStmt("print(y)", "print", <<Var("y")>>), 2),
       ListStmt("assign", "e = []", "e", <<>>),
       ForStmt("forlist", "for z in e:", "z", NoTok, NoTok, "", Var("e")),
       Ind(PrintStmt("print(z)", "print", <<Var("z")>>), 2),
       PrintStmt("print(n)", "print", <<Var("n")>>) >>

\* a division by zero, and a product beyond the largest finite number
\* (the literal stands for 1e308)
PyDivision ==
    << Stmt("assign", "x = 7", "x", Num(7), "", NoTok),
       Stmt("compound", "x /= 0", "x", NoTok, "/", Num(0)),
       Stmt("assign", "y = x / 0", "y", Var("x"), "/", Num(0)),
       Stmt("assign", "big = 1e308", "big", Num(MaxFinite), "", NoTok),
       Stmt("compound", "big *= 10", "big", NoTok, "*", Num(10)),
       PrintStmt("print(big)", "print", <<Var("big")>>) >>

PyIfElse(v) ==
    << Stmt("assign", "x = v", "x", Num(v), "", NoTok),
       Stmt("if", "if x > 3:", "", Var("x"), ">", Num(3)),
       Ind(Stmt("assign", "x = 1", "x", Num(1), "", NoTok), 2),
       Ind(PrintStmt("print('big')", "print", <<Str("big")>>), 2),
       ElseLine("else:"),
       Ind(Stmt("assign", "x = 2", "x", Num(2), "", NoTok), 2),
       PrintStmt("print(x)", "print", <<Var("x")>>) >>

\* an if/else that ends the body of a range loop
PyNestedIf ==
    << ForStmt("forrange", "for i in range(3):", "i", NoTok, NoTok, "", Num(3)),
       Ind(Stmt("if", "if i > 0:", "", Var("i"), ">", Num(0)), 2),
       Ind(Stmt("assign", "a = 1", "a", Num(1), "", NoTok), 4),
       Ind(ElseLine("else:"), 2),
       Ind(Stmt("assign", "a = 2", "a", Num(2), "", NoTok), 4),
       PrintStmt("print(a)", "print", <<Var("a")>>) >>

\* a range loop whose body prints the loop variable and then assigns to it
PyRange(text, bound) ==
    << Stmt("assign", "n = 2", "n", Num(2), "", NoTok),
       ForStmt("forrange", "for i in range(" \o text \o "):", "i", NoTok, NoTok, "", bound),
       Ind(PrintStmt("print(i)", "print", <<Var("i")>>), 2),
       Ind(Stmt("assign", "i = 7", "i", Num(7), "", NoTok), 2) >>
RangeBounds ==
    { <<"3", Num(3)>>, <<"0", Num(0)>>, <<"-2", Num(-2)>>, <<"n", Var("n")>>,
      <<"m", Var("m")>>, <<"2.5", Frac(2)>>, <<"-0.5", Frac(-1)>> }
RangeInputs == {Input("python", PyRange(r[1], r[2])) : r \in RangeBounds}

\* a print whose rendered text is empty, between two statements
EmptyPrint(decl, declText, printLine, shown) ==
    << Stmt(decl, declText, "x", Num(1), "", NoTok), printLine, shown >>
EmptyPrintInputs ==
    { Input("python", EmptyPrint("assign", "x = 1",
                                 PrintStmt("print(\"\")", "print", <<Str("")>>),
                                 PrintStmt("print(x)", "print", <<Var("x")>>))),
      Input("java", EmptyPrint("declassign", "int x = 1;",
                               PrintStmt("System.out.println(\"\");", "println", <<Str("")>>),
                               PrintStmt("System.out.println(x);", "println", <<Var("x")>>))),
      Input("c", EmptyPrint("declassign", "int x = 1;",
                            PrintfStmt("printf(\"\");", "printf", <<>>, <<>>),
                            PrintfStmt("printf(\"%d\", x);", "printf", <<"%d">>, <<Var("x")>>))),
      Input("go", EmptyPrint("godecl", "x := 1",
                             PrintStmt("fmt.Println()", "fmt.Println", <<>>),
                             PrintStmt("fmt.Println(x)", "fmt.Println", <<Var("x")>>))) }

\* a line that no pattern of the engine matches, between two statements
Unknown(decl, declText, text, shown) ==
    << Stmt(decl, declText, "x", Num(1), "", NoTok), Plain(text), shown >>
UnknownInputs ==
    { Input("python", Unknown("assign", "x = 1", "import math",
                              PrintStmt("print(x)", "print", <<Var("x")>>))),
      Input("java", Unknown("declassign", "int x = 1;", "return;",
                            PrintStmt("System.out.println(x);", "println", <<Var("x")>>))),
      Input("c", Unknown("declassign", "int x = 1;", "return 0;",
                         PrintfStmt("printf(\"%d\", x);", "printf", <<"%d">>, <<Var("x")>>))),
      Input("go", Unknown("godecl", "x := 1", "return",
                          PrintStmt("print(x)", "print", <<Var("x")>>))) }

\* compound assignments and increments whose target is bound to a number,
\* to a list, or to nothing
Compounds(decl, listText, numText, end, shown) ==
    << ListStmt(decl, listText, "nums", <<Num(1), Num(2), Num(3)>>),
       Stmt(decl, numText, "n", Num(6), "", NoTok),
       Stmt("compound", "n /= 0" \o end, "n", NoTok, "/", Num(0)),
       Stmt("compound", "n *= 2" \o end, "n", NoTok, "*", Num(2)),
       Stmt("compound", "k -= n" \o end, "k", NoTok, "-", Var("n")),
       Stmt("compound", "nums += [4]" \o end, "nums", NoTok, "+", Text("[4]")),
       shown >>
IncDecs(decl, numText) ==
    << Stmt(decl, numText, "n", Num(6), "", NoTok),
       Stmt("inc", "n++;", "n", NoTok, "", NoTok),
       Stmt("dec", "j--;", "j", NoTok, "", NoTok),
       Stmt("dec", "n--;", "n", NoTok, "", NoTok) >>
OperationInputs ==
    { Input("python", Compounds("assign", "nums = [1, 2, 3]", "n = 6", "",
                                PrintStmt("print(nums)", "print", <<Var("nums")>>))),
      Input("java", IncDecs("declassign", "int n = 6;")),
      Input("c", IncDecs("declassign", "int n = 6;")) }

\* the operands resolveNumeric is given, as text and as token
Operands ==
    << <<"nums[n]", Index("nums", Var("n"))>>, <<"nums[3]", Index("nums", Num(3))>>,
       <<"nums[-1]", Index("nums", Num(-1))>>, <<"nums[nums[2]]", Index("nums", Index("nums", Num(2)))>>,
       <<"len(nums)", LenCall("nums")>>, <<"nums.length", Length("nums")>>,
       <<"n[0]", Index("n", Num(0))>>, <<"len(n)", LenCall("n")>>,
       <<"nums", Var("nums")>>, <<"missing", Var("missing")>>,
       <<"[4]", Text("[4]")>>, <<"n", Var("n")>>, <<"5", Num(5)>> >>
\* every operand on the right of a compound assignment
Resolves(listLine, numLine, end) ==
    << listLine, numLine >>
    \o [j \in 1..Len(Operands) |->
          Stmt("compound", "s += " \o Operands[j][1] \o end, "s", NoTok, "+", Operands[j][2])]
ResolveInputs ==
    { Input("python",
            Resolves(ListStmt("assign", "nums = [10, 20, 2]", "nums",
                              <<Num(10), Num(20), Num(2)>>),
                     Stmt("assign", "n = 1", "n", Num(1), "", NoTok), "")),
      Input("java",
            Resolves(ListStmt("arrayinit", "int[] nums = {10, 20, 2};", "nums",
                              <<Num(10), Num(20), Num(2)>>),
                     Stmt("declassign", "int n = 1;", "n", Num(1), "", NoTok), ";")) }

\* more than MAX_STEPS entries
PyLong ==
    << Stmt("assign", "s = 0", "s", Num(0), "", NoTok),
       ForStmt("forrange", "for i in range(9):", "i", NoTok, NoTok, "", Num(9)),
       Ind(Stmt("compound", "s += i", "s", NoTok, "+", Var("i")), 2),
       PrintStmt("print(s)", "print", <<Var("s")>>) >>

\* Scenario B, one statement per line; sameLine: `} else {`, otherwise `}`
\* followed by `else {`
BraceIfElse(v, sameLine, style) ==
    << Stmt("declassign", "int x = v;", "x", Num(v), "", NoTok),
       Br(Stmt("if", "if (x > 3) {", "", Var("x"), ">", Num(3)), Open),
       Stmt("assign", "x = 1;", "x", Num(1), "", NoTok) >>
    \o (IF sameLine THEN <<CloseElseOpen>> ELSE <<CloseLine, ElseOpen>>)
    \o << Stmt("assign", "x = 2;", "x", Num(2), "", NoTok),
          PrintStmt("print(2);", style, <<Num(2)>>),
          CloseLine,
          PrintStmt("print(x);", style, <<Var("x")>>),
          CloseLine >>

\* every brace on a line of its own
AllmanIfElse(v, style) ==
    << Stmt("declassign", "int x = v;", "x", Num(v), "", NoTok),
       Stmt("if", "if (x > 3)", "", Var("x"), ">", Num(3)),
       OpenLine,
       Stmt("assign", "x = 1;", "x", Num(1), "", NoTok),
       CloseLine,
       ElseLine("else"),
       OpenLine,
       Stmt("assign", "x = 2;", "x", Num(2), "", NoTok),
       CloseLine,
       PrintStmt("print(x);", style, <<Var("x")>>) >>

JavaFor(op, limit) ==
    << Stmt("declassign", "int sum = 0;", "sum", Num(0), "", NoTok),
       Br(ForStmt("forjava", "for (int i = 0; i op limit; i++) {", "i", Num(0),
                  NoTok, op, Num(limit)), Open),
       Br(Stmt("if", "if (i > 1) {", "", Var("i"), ">", Num(1)), Open),
       Stmt("compound", "sum += i;", "sum", NoTok, "+", Var("i")),
       CloseElseOpen,
       Stmt("inc", "sum++;", "sum", NoTok, "", NoTok),
       CloseLine,
       CloseLine,
       PrintStmt("System.out.println(sum);", "println", <<Str("sum="), Var("sum")>>),
       CloseLine,
       CloseLine >>

IntI0 == Stmt("declassign", "int i = 0;", "i", Num(0), "", NoTok)
IncI == Stmt("inc", "i++;", "i", NoTok, "", NoTok)

\* a three-clause loop; op and limit decide whether the condition can fail
CFor(op, limit) ==
    << Stmt("declassign", "int x = 0;", "x", Num(0), "", NoTok),
       Br(For3("for (int i = 0; i op limit; i++) {", IntI0, Var("i"), op, Num(limit), IncI), Open),
       Stmt("compound", "x += 2;", "x", NoTok, "+", Num(2)),
       CloseLine,
       Stmt("assign", "y = x + 1;", "y", Var("x"), "+", Num(1)),
       PrintStmt("Console.WriteLine(y);", "Console.WriteLine", <<Var("y")>>) >>

\* the same loop with its `{` on the next line
CForAllman ==
    << Stmt("declassign", "int x = 0;", "x", Num(0), "", NoTok),
       For3("for (int i = 0; i >= 0; i++)", IntI0, Var("i"), ">=", Num(0), IncI),
       OpenLine,
       Stmt("compound", "x += 2;", "x", NoTok, "+", Num(2)),
       CloseLine,
       Stmt("assign", "y = x + 1;", "y", Var("x"), "+", Num(1)) >>

\* a never-failing loop entered twice by an enclosing loop
CForNested ==
    << Br(For3("for (int k = 0; k < 2; k++) {",
               Stmt("declassign", "int k = 0;", "k", Num(0), "", NoTok),
               Var("k"), "<", Num(2),
               Stmt("inc", "k++;", "k", NoTok, "", NoTok)), Open),
       Br(For3("for (int i = 0; i >= 0; i++) {", IntI0, Var("i"), ">=", Num(0), IncI), Open),
       Stmt("compound", "x += 2;", "x", NoTok, "+", Num(2)),
       CloseLine,
       Stmt("assign", "y = x + 1;", "y", Var("x"), "+", Num(1)),
       CloseLine >>

GoLoop(op, limit) ==
    << Stmt("godecl", "x := 0", "x", Num(0), "", NoTok),
       Br(GoFor("for i := 1; i op limit; i++ {", "i", Num(1), Var("i"), op, Num(limit),
                Stmt("inc", "i++;", "i", NoTok, "", NoTok)), Open),
       Stmt("compound", "x += i", "x", NoTok, "+", Var("i")),
       CloseLine,
       PrintStmt("fmt.Println(x)", "fmt.Println", <<Var("x")>>),
       CloseLine >>

RustList ==
    << ListStmt("rustdecl", "let v = vec![4, 5, 6];", "v", <<Num(4), Num(5), Num(6)>>),
       Stmt("rustdecl", "let mut s = 0;", "s", Num(0), "", NoTok),
       Br(ForStmt("forlist", "for x in v {", "x", NoTok, NoTok, "", Var("v")), Open),
       ListStmt("rustdecl", "let v = vec![9];", "v", <<Num(9)>>),
       Stmt("compound", "s += x;", "s", NoTok, "+", Var("x")),
       CloseLine,
       Br(ForStmt("forrust", "for i in 1..=3 {", "i", Num(1), NoTok, "", Num(3)), Open),
       Stmt("compound", "s += i;", "s", NoTok, "+", Var("i")),
       CloseLine,
       CloseLine >>

\* lists of 7, 8, 9 and 10 items
PyLists ==
    << ListStmt("assign", "a = [1,2,3,4,5,6,7]", "a",
                <<Num(1), Num(2), Num(3), Num(4), Num(5), Num(6), Num(7)>>),
       ListStmt("assign", "b = [1,2,3,4,5,6,7,8]", "b",
                <<Num(1), Num(2), Num(3), Num(4), Num(5), Num(6), Num(7), Num(8)>>),
       ListStmt("assign", "c = [1,2,3,4,5,6,7,8,9]", "c",
                <<Num(1), Num(2), Num(3), Num(4), Num(5), Num(6), Num(7), Num(8), Num(9)>>),
       ListStmt("assign", "d = [10,20,30,40,50,60,70,80,90,100]", "d",
                <<Num(10), Num(20), Num(30), Num(40), Num(50), Num(60), Num(70),
                  Num(80), Num(90), Num(100)>>),
       PrintStmt("print(a)", "print", <<Var("a")>>),
       PrintStmt("print(b)", "print", <<Var("b")>>),
       PrintStmt("print(c)", "print", <<Var("c")>>),
       PrintStmt("print(d)", "print", <<Var("d")>>) >>

\* both range forms; `for j in 0..3 {` matches none of the loop patterns of
\* runBlock (kind "rangeexcl" is handled nowhere), so it is a plain line
RustRanges ==
    << Stmt("rustdecl", "let mut s = 0;", "s", Num(0), "", NoTok),
       Br(ForStmt("forrust", "for i in 2..=4 {", "i", Num(2), NoTok, "", Num(4)), Open),
       Stmt("compound", "s += i;", "s", NoTok, "+", Var("i")),
       CloseLine,
       Br(ForStmt("rangeexcl", "for j in 0..3 {", "j", Num(0), NoTok, "", Num(3)), Open),
       Stmt("compound", "s += j;", "s", NoTok, "+", Var("j")),
       CloseLine >>

\* the loop over a..b written in the three forms of the C-style engine; the
\* body adds the loop variable to s and prints it (the print patterns are
\* those of the engine, whatever the languageId)
InclusiveHeader(form, a, b) ==
    CASE form = "for3" ->
           For3("for (int i = " \o ToString(a) \o "; i <= " \o ToString(b) \o "; i++) {",
                Stmt("declassign", "int i = " \o ToString(a) \o ";", "i", Num(a), "", NoTok),
                Var("i"), "<=", Num(b), IncI)
      [] form = "forgo" ->
           GoFor("for i := " \o ToString(a) \o "; i <= " \o ToString(b) \o "; i++ {",
                 "i", Num(a), Var("i"), "<=", Num(b), IncI)
      [] OTHER ->
           ForStmt("forrust", "for i in " \o ToString(a) \o "..=" \o ToString(b) \o " {",
                   "i", Num(a), NoTok, "", Num(b))
\* the body, the same under the three headers
InclusiveBody ==
    << Stmt("compound", "s += i;", "s", NoTok, "+", Var("i")),
       PrintfStmt("printf(\"%d\\n\", i);", "printf", <<"%d", "\\n">>, <<Var("i")>>) >>
Inclusive(form, a, b) ==
    << Stmt(CASE form = "for3" -> "declassign" [] form = "forgo" -> "godecl"
              [] OTHER -> "rustdecl",
            CASE form = "for3" -> "int s = 0;" [] form = "forgo" -> "s := 0"
              [] OTHER -> "let mut s = 0;",
            "s", Num(0), "", NoTok),
       Br(InclusiveHeader(form, a, b), Open) >> \o InclusiveBody \o << CloseLine >>
InclusiveForms == {<<"c", "for3">>, <<"go", "forgo">>, <<"rust", "forrust">>}
InclusiveRanges == {<<1, 3>>, <<2, 2>>, <<3, 1>>}
InclusiveInputs ==
    {Input(f[1], Inclusive(f[2], r[1], r[2])) : f \in InclusiveForms, r \in InclusiveRanges}

\* %-style formats: as many arguments as placeholders, fewer, and more
CPrintf ==
    << Stmt("declassign", "int x = 5;", "x", Num(5), "", NoTok),
       PrintfStmt("printf(\"x = %d, s = %s\\n\", x, \"a\");", "printf",
                  <<"x = ", "%d", ", s = ", "%s", "\\n">>, <<Var("x"), Str("a")>>),
       PrintfStmt("printf(\"%d-%f\", x);", "printf", <<"%d", "-", "%f">>, <<Var("x")>>),
       PrintfStmt("printf(\"%d\", x, 7);", "printf", <<"%d">>, <<Var("x"), Num(7)>>) >>

GoPrintf ==
    << Stmt("godecl", "x := 3", "x", Num(3), "", NoTok),
       PrintfStmt("fmt.Printf(\"%d and %d\\n\", x, 4)", "fmt.Printf",
                  <<"%d", " and ", "%d", "\\n">>, <<Var("x"), Num(4)>>) >>

\* {}-style formats
RustPrintln ==
    << Stmt("rustdecl", "let x = 5;", "x", Num(5), "", NoTok),
       PrintfStmt("println!(\"x = {}\", x);", "println!", <<"x = ", "{}">>, <<Var("x")>>),
       PrintfStmt("println!(\"{} and {}\", x, 7);", "println!",
                  <<"{}", " and ", "{}">>, <<Var("x"), Num(7)>>) >>

\* a declaration and an assignment with one operator, and expressions with
\* two; decl is the dialect's declaration pattern
Binary(decl, pre, eq, end) ==
    << Stmt(decl, pre \o "a" \o eq \o "7" \o end, "a", Num(7), "", NoTok),
       Stmt(decl, pre \o "y" \o eq \o "a + 2" \o end, "y", Var("a"), "+", Num(2)),
       Stmt("assign", "z = a * y" \o end, "z", Var("a"), "*", Var("y")),
       Stmt("assign", "q = a / 0" \o end, "q", Var("a"), "/", Num(0)),
       ExprStmt("assign", "r = a - 2 - 1" \o end, "r",
                <<Var("a"), Op("-"), Num(2), Op("-"), Num(1)>>),
       ExprStmt("assign", "s = 8 / 2 * 0" \o end, "s",
                <<Num(8), Op("/"), Num(2), Op("*"), Num(0)>>) >>

\* a `}` that nothing opened, and an if whose `{` is never closed
BraceUnclosed(v, style) ==
    << CloseLine,
       Stmt("declassign", "int x = v;", "x", Num(v), "", NoTok),
       Br(Stmt("if", "if (x > 3) {", "", Var("x"), ">", Num(3)), Open),
       Stmt("assign", "x = 9;", "x", Num(9), "", NoTok),
       PrintStmt("print(x);", style, <<Var("x")>>) >>

\* two blocks opened on one line
TwoOpeners ==
    << Br(Plain("int main() { if (1) {"), <<"{", "{">>),
       Stmt("declassign", "int x = 1;", "x", Num(1), "", NoTok),
       CloseLine,
       Stmt("declassign", "int y = 2;", "y", Num(2), "", NoTok),
       CloseLine >>

EngineInputs ==
    { Input("java", Binary("declassign", "int ", " = ", ";")),
      Input("c", Binary("declassign", "int ", " = ", ";")),
      Input("go", Binary("godecl", "", " := ", "")),
      Input("rust", Binary("rustdecl", "let ", " = ", ";")),
      Input("python", Binary("assign", "", " = ", "")),
      Input("c", BraceUnclosed(1, "printf")), Input("java", BraceUnclosed(1, "println")),
      Input("c", BraceUnclosed(5, "printf")), Input("c", TwoOpeners),
      Input("python", PyScenarioA), Input("python", PyRebind),
      Input("python", PyNotList), Input("python", PyIfElse(5)),
      Input("python", PyDivision),
      Input("python", PyIfElse(2)), Input("typescript", PyNestedIf),
      Input("unknown", PyLong),
      Input("java", BraceIfElse(5, TRUE, "println")),
      Input("java", BraceIfElse(2, TRUE, "println")),
      Input("java", BraceIfElse(5, FALSE, "println")),
      Input("java", BraceIfElse(2, FALSE, "println")),
      Input("java", AllmanIfElse(5, "println")),
      Input("java", JavaFor("<", 4)), Input("java", JavaFor(">=", 0)),
      Input("csharp", BraceIfElse(5, TRUE, "Console.WriteLine")),
      Input("csharp", BraceIfElse(2, TRUE, "Console.WriteLine")),
      Input("cpp", BraceIfElse(5, FALSE, "Console.WriteLine")),
      Input("cpp", BraceIfElse(2, FALSE, "Console.WriteLine")),
      Input("csharp", AllmanIfElse(5, "Console.WriteLine")),
      Input("c", CFor("<", 3)), Input("c", CFor(">=", 0)),
      Input("csharp", CForAllman), Input("c", CForNested),
      Input("go", GoLoop("<=", 3)), Input("go", GoLoop(">=", 0)),
      Input("rust", RustList),
      Input("rust", RustRanges), Input("python", PyLists),
      Input("c", CPrintf), Input("go", GoPrintf), Input("rust", RustPrintln) }
    \cup InclusiveInputs \cup RangeInputs \cup EmptyPrintInputs \cup UnknownInputs
    \cup OperationInputs \cup ResolveInputs

\* Scenario C
MkScenarioC ==
    << MLine("set", <<Var("a"), Num(3)>>, "set a 3"),
       MLine("loop", <<Var("a")>>, "loop a"),
       MLine("print", <<Var("a")>>, "print a"),
       MLine("end", <<>>, "end") >>

\* the operand changes inside the body; blank and comment lines
MkOperandChanges ==
    << MLine("set", <<Var("a"), Num(2)>>, "set a 2"),
       MLine("#", <<>>, "# twice"),
       MLine("loop", <<Var("a")>>, "loop a"),
       MLine("add", <<Var("a"), Num(5)>>, "add a 5"),
       MLine("", <<>>, ""),
       MLine("print", <<Var("a")>>, "print a"),
       MLine("end", <<>>, "end"),
       MLine("print", <<Var("a")>>, "print a") >>

\* an inner loop re-entered by the outer one, with a growing count
MkNested ==
    << MLine("set", <<Var("n"), Num(1)>>, "set n 1"),
       MLine("loop", <<Num(3)>>, "loop 3"),
       MLine("loop", <<Var("n")>>, "loop n"),
       MLine("print", <<Var("n")>>, "print n"),
       MLine("end", <<>>, "end"),
       MLine("add", <<Var("n"), Num(1)>>, "add n 1"),
       MLine("end", <<>>, "end"),
       MLine("jump", <<>>, "jump") >>

\* counts of zero and below, and an if inside a loop
MkZero ==
    << MLine("loop", <<Var("z")>>, "loop z"),
       MLine("print", <<Num(9)>>, "print 9"),
       MLine("end", <<>>, "end"),
       MLine("loop", <<Num(-2)>>, "loop -2"),
       MLine("print", <<Num(8)>>, "print 8"),
       MLine("end", <<>>, "end"),
       MLine("set", <<Var("a"), Num(2)>>, "set a 2"),
       MLine("loop", <<Num(2)>>, "loop 2"),
       MLine("if", <<Var("a"), Str(">"), Num(5)>>, "if a > 5"),
       MLine("print", <<Var("a")>>, "print a"),
       MLine("endif", <<>>, "endif"),
       MLine("mul", <<Var("a"), Num(4)>>, "mul a 4"),
       MLine("end", <<>>, "end"),
       MLine("div", <<Var("a"), Num(0)>>, "div a 0"),
       MLine("sub", <<Var("a"), Num(1)>>, "sub a 1") >>

\* a comment, an unknown instruction, a blank line and an `end` without a loop
MkOddLines ==
    << MLine("#", <<>>, "# start"),
       MLine("jump", <<Num(3)>>, "jump 3"),
       MLine("", <<>>, ""),
       MLine("set", <<Var("a"), Num(1)>>, "set a 1"),
       MLine("end", <<>>, "end"),
       MLine("print", <<Var("a")>>, "print a") >>

\* nested if/endif pairs: an outer condition that is false, an inner one that
\* is false inside a true one, and an `if` that no `endif` closes
MkNestedIf ==
    << MLine("set", <<Var("a"), Num(2)>>, "set a 2"),
       MLine("if", <<Var("a"), Str(">"), Num(5)>>, "if a > 5"),
       MLine("print", <<Num(1)>>, "print 1"),
       MLine("if", <<Var("a"), Str("<"), Num(5)>>, "if a < 5"),
       MLine("print", <<Num(2)>>, "print 2"),
       MLine("endif", <<>>, "endif"),
       MLine("print", <<Num(3)>>, "print 3"),
       MLine("endif", <<>>, "endif"),
       MLine("", <<>>, ""),
       MLine("if", <<Var("a"), Str("<"), Num(5)>>, "if a < 5"),
       MLine("if", <<Var("a"), Str("=="), Num(3)>>, "if a == 3"),
       MLine("print", <<Num(4)>>, "print 4"),
       MLine("endif", <<>>, "endif"),
       MLine("print", <<Num(5)>>, "print 5"),
       MLine("endif", <<>>, "endif"),
       MLine("if", <<Var("a"), Str(">"), Num(9)>>, "if a > 9"),
       MLine("print", <<Num(6)>>, "print 6") >>

\* an if whose skip jumps over the `end` of the inner loop, inside an outer
\* loop that comes back to it with another count operand
MkMisnested ==
    << MLine("set", <<Var("a"), Num(1)>>, "set a 1"),
       MLine("loop", <<Num(2)>>, "loop 2"),
       MLine("loop", <<Var("a")>>, "loop a"),
       MLine("if", <<Var("a"), Str(">"), Num(5)>>, "if a > 5"),
       MLine("end", <<>>, "end"),
       MLine("endif", <<>>, "endif"),
       MLine("add", <<Var("a"), Num(1)>>, "add a 1"),
       MLine("end", <<>>, "end"),
       MLine("print", <<Var("a")>>, "print a") >>

\* closers that nothing opened, then a loop that nothing closes
MkUnbalanced ==
    << MLine("set", <<Var("a"), Num(1)>>, "set a 1"),
       MLine("endif", <<>>, "endif"),
       MLine("end", <<>>, "end"),
       MLine("loop", <<Num(2)>>, "loop 2"),
       MLine("end", <<>>, "end"),
       MLine("end", <<>>, "end"),
       MLine("loop", <<Num(2)>>, "loop 2"),
       MLine("if", <<Var("a"), Str("<"), Num(5)>>, "if a < 5"),
       MLine("print", <<Var("a")>>, "print a") >>

\* as MkMisnested, with a line between the two loop lines, so that every
\* arrival at the inner loop comes from the line before it
MkStale ==
    << MLine("set", <<Var("a"), Num(1)>>, "set a 1"),
       MLine("loop", <<Num(2)>>, "loop 2"),
       MLine("print", <<Var("a")>>, "print a"),
       MLine("loop", <<Var("a")>>, "loop a"),
       MLine("if", <<Var("a"), Str(">"), Num(5)>>, "if a > 5"),
       MLine("end", <<>>, "end"),
       MLine("endif", <<>>, "endif"),
       MLine("add", <<Var("a"), Num(1)>>, "add a 1"),
       MLine("end", <<>>, "end") >>

\* control lines written with a tab after the command, with no operand and
\* with tokens after `endif` and `end`
MkSeparators ==
    << MLine("set", <<Var("a"), Num(1)>>, "set a 1"),
       MLineTab("if", <<Var("a"), Str(">"), Num(5)>>, "if" \o Tab \o "a > 5"),
       MLine("print", <<Num(1)>>, "print 1"),
       MLine("endif", <<Var("x")>>, "endif x"),
       MLineTab("loop", <<Num(2)>>, "loop" \o Tab \o "2"),
       MLine("add", <<Var("a"), Num(1)>>, "add a 1"),
       MLine("end", <<Var("x")>>, "end x"),
       MLine("loop", <<>>, "loop"),
       MLine("if", <<>>, "if"),
       MLine("print", <<Var("a")>>, "print a"),
       MLine("end", <<>>, "end"),
       MLine("endif", <<>>, "endif") >>

MinikoInputs ==
    { Input("miniko", MkNestedIf),
      Input("miniko", MkOddLines), Input("miniko", MkScenarioC), Input("miniko", MkOperandChanges),
      Input("miniko", MkNested), Input("miniko", MkZero),
      Input("miniko", MkMisnested), Input("miniko", MkUnbalanced),
      Input("miniko", MkStale), Input("miniko", MkSeparators) }

(***************************************************************************)
(* handleAiExplain of App.  `ai` holds the state the handler sets          *)
(* (aiStatus, aiAnswer), the prompt it captured, the reply of the remote   *)
(* service and the handler's position between its awaits.  A text read     *)
(* from outside (prompt, remote answer) is a sequence of pieces, a text    *)
(* the handler builds is a sequence of lines.  The code explained is       *)
(* input.lines; headerBraces counts the `{` of the header lines that the   *)
(* engines filter out of input.lines.                                      *)
(***************************************************************************)
\* TRANSLATIONS[locale][key] ?? key: the tables hold none of the ai keys
\* (the function `t` of useI18n)
translation(key) == key

aiStart ==
    [aiStatus |-> "idle", aiAnswer |-> <<>>, at |-> "none", prompt |-> <<>>,
     reply |-> <<>>, headerBraces |-> 0]

\* an Error message; parsed holds what JSON.parse makes of a text wrapped in
\* braces, rate and credits whether the two patterns of the catch block match
Msg(text, parsed, rate, credits) ==
    [text |-> text, parsed |-> parsed, rate |-> rate, credits |-> credits]
Parsed(valid, code, message) == <<[valid |-> valid, code |-> code, message |-> message]>>
Plainly(text) == Msg(text, <<>>, FALSE, FALSE)

\* fetch rejects or resolves; response.ok; response.text() and
\* response.json() reject (<<>>) or resolve
Reply(fetch, ok, text, data) == [fetch |-> fetch, ok |-> ok, text |-> text, data |-> data]
\* the parsed body: null, or an object whose `answer` is absent (<<>>), a
\* string (its pieces) or a number
Data(isNull, answer) == <<[isNull |-> isNull, answer |-> answer]>>
Answer(isString, pieces) == <<[isString |-> isString, pieces |-> pieces]>>

Replies ==
    { Reply("rejects", FALSE, <<>>, <<>>),
      Reply("resolves", FALSE, <<>>, <<>>),
      Reply("resolves", FALSE, <<Plainly("")>>, <<>>),
      Reply("resolves", FALSE, <<Plainly("Bad Gateway")>>, <<>>),
      Reply("resolves", FALSE, <<Msg("{429}", Parsed(TRUE, 429, "busy"), FALSE, FALSE)>>, <<>>),
      Reply("resolves", FALSE, <<Msg("{402}", Parsed(TRUE, 402, ""), FALSE, TRUE)>>, <<>>),
      Reply("resolves", FALSE, <<Msg("{quota}", Parsed(TRUE, 500, "quota"), FALSE, FALSE)>>, <<>>),
      Reply("resolves", FALSE, <<Msg("{}", Parsed(TRUE, 0, ""), FALSE, FALSE)>>, <<>>),
      Reply("resolves", FALSE, <<Msg("{oops", Parsed(FALSE, 0, ""), FALSE, FALSE)>>, <<>>),
      Reply("resolves", FALSE, <<Msg("Rate limit reached", <<>>, TRUE, FALSE)>>, <<>>),
      Reply("resolves", FALSE, <<Msg("no credits", <<>>, FALSE, TRUE)>>, <<>>),
      Reply("resolves", TRUE, <<>>, <<>>),
      Reply("resolves", TRUE, <<>>, Data(TRUE, <<>>)),
      Reply("resolves", TRUE, <<>>, Data(FALSE, <<>>)),
      Reply("resolves", TRUE, <<>>, Data(FALSE, Answer(FALSE, <<>>))),
      Reply("resolves", TRUE, <<>>, Data(FALSE, Answer(TRUE, <<>>))),
      Reply("resolves", TRUE, <<>>, Data(FALSE, Answer(TRUE, <<" ", "\n">>))),
      Reply("resolves", TRUE, <<>>, Data(FALSE, Answer(TRUE, <<" ", "It adds the numbers.", "\n">>))),
      Reply("resolves", TRUE, <<>>, Data(FALSE, Answer(TRUE, <<"A brace is ", "missing", ".">>))) }

\* the catch block's choice of the message shown
friendlyMessage(message) ==
    IF Len(message.parsed) = 1
    THEN LET parsed == message.parsed[1] IN
         CASE ~parsed.valid -> message.text
           [] parsed.code = 429 -> translation("aiRateLimited")
           [] parsed.code = 402 -> translation("aiInsufficientCredits")
           [] parsed.message # "" -> parsed.message
           [] OTHER -> message.text
    ELSE CASE message.rate -> translation("aiRateLimited")
           [] message.credits -> translation("aiInsufficientCredits")
           [] OTHER -> message.text

buildLocalExplanation(ls, locale) ==
    LET es == locale = "es"
        length == Len(ls)
        \* /loop|for|while/i and /if|switch|case/i, by the statement a line holds
        LoopKinds == {"forrange", "forlist", "forjava", "for3", "forgo", "forrust",
                      "rangeexcl"}
        hasLoops == \E i \in 1..Len(ls) : ls[i].kind \in LoopKinds
        hasConditionals == \E i \in 1..Len(ls) : ls[i].kind = "if"
    IN join(<< IF es THEN "Detecté " \o ToString(length) \o " líneas activas."
               ELSE "Detected " \o ToString(length) \o " active lines.",
               IF hasLoops
               THEN (IF es THEN "Hay bucles en el flujo." ELSE "There are loops in the flow.")
               ELSE (IF es THEN "No veo bucles explícitos." ELSE "No explicit loops found."),
               IF hasConditionals
               THEN (IF es THEN "Hay condiciones que afectan la ejecución."
                     ELSE "There are conditions affecting execution.")
               ELSE (IF es THEN "No veo condiciones explícitas."
                     ELSE "No explicit conditions found."),
               IF es THEN "Este es un resumen local. Conecta un proveedor IA real para obtener análisis profundo."
               ELSE "This is a local summary. Connect a real AI provider for deeper analysis." >>,
            " ")

isPossiblyIncomplete(ls, languageId, headerBraces) ==
    LET braces(b) == {<<i, j>> \in (1..Len(ls)) \X (1..2) :
                        j <= Len(ls[i].br) /\ ls[i].br[j] = b}
        \* `{` counted up and `}` counted down
        balance == headerBraces + Cardinality(braces("{")) - Cardinality(braces("}"))
    IN
    CASE Len(ls) = 0 -> TRUE
      [] languageId = "python" ->
           \E i \in 1..Len(ls) :
             /\ ls[i].kind \in {"if", "else", "forrange", "forlist"}
             /\ ~(i < Len(ls) /\ ls[i + 1].indent > ls[i].indent)
      [] languageId \in {"java", "c", "cpp", "csharp", "go", "rust"} ->
           balance # 0
      [] OTHER -> FALSE

\* the trace buildTraceForCode returned: the last entry's outputsAfter
getOutputFromTrace(returned, locale) ==
    LET outs == IF Len(returned) = 0 THEN <<>>
                ELSE returned[Len(returned)].outputsAfter.val
    IN IF Len(outs) > 0 THEN join(outs, "\n")
       ELSE IF locale = "es" THEN "Sin salida." ELSE "No output."

buildAiFallbackAnswer(prompt, ls, languageId, locale, incomplete, returned) ==
    LET es == locale = "es"
        question == IF trim(prompt) = <<>>
                    THEN (IF es THEN "Sin pregunta" ELSE "No question")
                    ELSE join(trim(prompt), "")
        limited == SubSeq(ls, 1, Min(6, Len(ls)))
        steps == [i \in 1..Len(limited) |->
                    IF es THEN "En la línea " \o ToString(i) \o " se ve: " \o limited[i].text \o "."
                    ELSE "On line " \o ToString(i) \o " you can see: " \o limited[i].text \o "."]
    IN << (IF es THEN "Sobre tu pregunta (\"" \o question \o "\"), el código actual "
                 ELSE "About your question (\"" \o question \o "\"), the current code ")
          \o (IF incomplete
              THEN (IF es THEN "parece incompleto, así que no se puede responder del todo."
                    ELSE "appears incomplete, so it cannot be fully answered.")
              ELSE (IF es THEN "permite una respuesta básica." ELSE "allows a basic answer.")),
          "",
          (IF es THEN "En resumen, " ELSE "In short, ") \o buildLocalExplanation(ls, locale),
          "",
          join(steps, " "),
          "",
          (IF es THEN "Salida: " ELSE "Output: ") \o getOutputFromTrace(returned, locale) >>

\* `returned` is the trace that the fallback answer's getOutputFromTrace
\* obtains; only a blank answer reads it
normalizeAiAnswer(answer, prompt, ls, languageId, locale, headerBraces, returned) ==
    LET trimmed == trim(answer)
        incomplete == isPossiblyIncomplete(ls, languageId, headerBraces)
        \* /incomplet|incomplete|faltan|missing/i
        mentionsIncomplete(pieces) ==
            \E i \in 1..Len(pieces) :
              pieces[i] \in {"incomplete", "incompleto", "faltan", "missing"}
    IN IF trimmed = <<>>
       THEN buildAiFallbackAnswer(prompt, ls, languageId, locale, incomplete, returned)
       ELSE IF incomplete /\ ~mentionsIncomplete(trimmed)
       THEN << IF locale = "es" THEN "Nota: el código parece incompleto."
               ELSE "Note: the code appears incomplete.", "", join(trimmed, "") >>
       ELSE << join(trimmed, "") >>

\* the catch block
aiCaught(a, message) ==
    [a EXCEPT
       !.aiAnswer = << translation("aiError"), friendlyMessage(message), "" >>
                    \o normalizeAiAnswer(<<buildLocalExplanation(input.lines, input.locale)>>,
                                         a.prompt, input.lines, input.languageId,
                                         input.locale, a.headerBraces, <<>>),
       !.aiStatus = "error", !.at = "done"]

\* setAiAnswer(finalAnswer); setAiStatus('idle')
aiAnswered(a, finalAnswer) ==
    [a EXCEPT !.aiAnswer = finalAnswer, !.aiStatus = "idle", !.at = "done"]

aiFrame == UNCHANGED <<mode, input, vars, arrays, outputs, trace, step, stack,
                       result, pc, loopCounters, sandbox>>

\* the button is pressed (it is disabled while aiStatus is 'loading'): the
\* handler runs up to `await fetch(...)`
AiExplain ==
    /\ mode = "explain" /\ ai.at \in {"ready", "done"} /\ ai.aiStatus # "loading"
    /\ \E aiPrompt \in {<<>>, <<" ">>, <<"why?">>} :
         ai' = [ai EXCEPT !.aiStatus = "loading", !.aiAnswer = <<>>, !.at = "fetch",
                          !.prompt = IF aiPrompt = <<>> THEN <<translation("aiDefaultPrompt")>>
                                     ELSE aiPrompt,
                          !.reply = <<>>]
    /\ aiFrame

\* fetch settles: a rejection is caught; a response that is not ok leads to
\* `await response.text()`, one that is ok to `await response.json()`
AiFetchSettles ==
    /\ mode = "explain" /\ ai.at = "fetch"
    /\ \E reply \in Replies :
         ai' = IF reply.fetch = "rejects"
               THEN aiCaught([ai EXCEPT !.reply = <<reply>>], Plainly("Failed to fetch"))
               ELSE [ai EXCEPT !.reply = <<reply>>, !.at = "body"]
    /\ aiFrame

\* the body has been read.  Not ok: throw new Error(errorText || 'Remote AI
\* not available').  Ok: the answer is normalized; a blank answer has the
\* fallback answer built, which runs buildTraceForCode on the code.
AiBodySettles ==
    /\ mode = "explain" /\ ai.at = "body"
    /\ LET reply == ai.reply[1]
           data == reply.data[1]
           rawAnswer == IF Len(data.answer) = 0 THEN <<translation("aiFallback")>>
                        ELSE data.answer[1].pieces
       IN CASE ~reply.ok /\ Len(reply.text) = 0 ->
                 /\ ai' = aiCaught(ai, Plainly("body stream failed"))
                 /\ aiFrame
            [] ~reply.ok /\ Len(reply.text) = 1 ->
                 /\ ai' = aiCaught(ai, IF reply.text[1].text = ""
                                       THEN Plainly("Remote AI not available")
                                       ELSE reply.text[1])
                 /\ aiFrame
            [] reply.ok /\ Len(reply.data) = 0 ->
                 /\ ai' = aiCaught(ai, Plainly("Unexpected token"))
                 /\ aiFrame
            [] reply.ok /\ Len(reply.data) = 1 /\ data.isNull ->
                 /\ ai' = aiCaught(ai, Plainly("Cannot read properties of null"))
                 /\ aiFrame
            [] reply.ok /\ Len(reply.data) = 1 /\ ~data.isNull
                 /\ Len(data.answer) = 1 /\ ~data.answer[1].isString ->
                 /\ ai' = aiCaught(ai, Plainly("answer.trim is not a function"))
                 /\ aiFrame
            [] OTHER ->
                 IF trim(rawAnswer) # <<>>
                 THEN /\ ai' = aiAnswered(ai, normalizeAiAnswer(rawAnswer, ai.prompt,
                                 input.lines, input.languageId, input.locale,
                                 ai.headerBraces, <<>>))
                      /\ aiFrame
                 ELSE /\ ai' = [ai EXCEPT !.at = "output"]
                      /\ mode' = "engine"
                      /\ vars' = <<>> /\ arrays' = <<>> /\ outputs' = <<>> /\ trace' = <<>>
                      /\ step' = startStep(step) /\ result' = <<>>
                      /\ stack' = <<Frame(0, Len(input.lines))>>
                      /\ UNCHANGED <<input, pc, loopCounters, sandbox>>

\* buildTraceForCode has returned to getOutputFromTrace: the fallback answer
\* is completed and set
AiOutputDone ==
    /\ mode = "engine" /\ ai.at = "output" /\ Len(result) = 1
    /\ ai' = aiAnswered(ai, normalizeAiAnswer(ai.reply[1].data[1].answer[1].pieces,
                              ai.prompt, input.lines, input.languageId, input.locale,
                              ai.headerBraces, result[1]))
    /\ mode' = "explain"
    /\ UNCHANGED <<input, vars, arrays, outputs, trace, step, stack, result, pc,
                   loopCounters, sandbox>>

\* the code in the panel's text area, with the `{` of its header lines
ExplainInputs ==
    { <<Input("python", PyScenarioA), 0>>, <<Input("java", JavaFor("<", 3)), 2>>,
      <<Input("java", JavaFor(">=", 0)), 2>>, <<Input("go", GoLoop("<=", 3)), 0>> }

(***************************************************************************)
(* detectLanguage and the hand-over to buildTraceForCode.  A source text   *)
(* is a sequence of pieces: white space, a comment sign, a word, and one   *)
(* fragment for each of the nine marker patterns.  A regular expression is *)
(* modelled by the piece it matches and the word boundaries it asks for.   *)
(***************************************************************************)
MaxSourceLen == 2

Pieces == {" ", "\t", "\n", "#", "x", "System.out.println", "Console.WriteLine",
           "std::cout", "printf(", "fmt.Print", "let mut", "interface", "import ",
           "select"}

\* the first / last character of the piece is a word character
wordStart(p) == p \notin Whitespace \cup {"#"}
wordEnd(p) == p \notin Whitespace \cup {"#", "printf(", "import "}

\* regex.test(s) for a pattern that matches the piece p, with \b in front
\* of it (before) and behind it (after)
test(s, p, before, after) ==
    \E i \in 1..Len(s) :
        /\ s[i] = p
        /\ before => (i = 1 \/ ~wordEnd(s[i - 1]))
        /\ after => (i = Len(s) \/ ~wordStart(s[i + 1]))

\* looksJava, looksCs, looksCpp, looksC, looksGo, looksRust, looksTs,
\* looksPython, looksSql
looks(id, s) ==
    CASE id = "java" -> test(s, "System.out.println", FALSE, FALSE)
      [] id = "csharp" -> test(s, "Console.WriteLine", FALSE, TRUE)
      [] id = "cpp" -> test(s, "std::cout", FALSE, FALSE)
      [] id = "c" -> test(s, "printf(", FALSE, FALSE)
      [] id = "go" -> test(s, "fmt.Print", FALSE, FALSE)
      [] id = "rust" -> test(s, "let mut", FALSE, TRUE)
      [] id = "typescript" -> test(s, "interface", TRUE, TRUE)
      [] id = "python" -> test(s, "import ", TRUE, FALSE)
      [] id = "sql" -> test(s, "select", TRUE, TRUE)

Detected(id, name) == [id |-> id, label |-> name, runnable |-> "null"]

detectLanguageSqlFirst(code, locale) ==
    LET sample == trim(code) IN
    IF Len(sample) = 0
    THEN Detected("empty", IF locale = "es" THEN "Sin código" ELSE "No code")
    ELSE IF looks("sql", sample) THEN Detected("sql", "SQL")
    ELSE IF looks("java", sample) THEN Detected("java", "Java")
    ELSE IF looks("csharp", sample) THEN Detected("csharp", "C#")
    ELSE IF looks("cpp", sample) THEN Detected("cpp", "C++")
    ELSE IF looks("c", sample) THEN Detected("c", "C")
    ELSE IF looks("go", sample) THEN Detected("go", "Go")
    ELSE IF looks("rust", sample) THEN Detected("rust", "Rust")
    ELSE IF looks("typescript", sample) THEN Detected("typescript", "TypeScript")
    ELSE IF looks("python", sample) THEN Detected("python", "Python")
    ELSE Detected("unknown", IF locale = "es" THEN "Lenguaje desconocido"
                                              ELSE "Unknown language")

detectLanguage(code, locale) ==
    LET sample == trim(code) IN
    IF Len(sample) = 0
    THEN Detected("empty", IF locale = "es" THEN "Sin código" ELSE "No code")
    ELSE IF looks("java", sample) THEN Detected("java", "Java")
    ELSE IF looks("csharp", sample) THEN Detected("csharp", "C#")
    ELSE IF looks("cpp", sample) THEN Detected("cpp", "C++")
    ELSE IF looks("c", sample) THEN Detected("c", "C")
    ELSE IF looks("go", sample) THEN Detected("go", "Go")
    ELSE IF looks("rust", sample) THEN Detected("rust", "Rust")
    ELSE IF looks("typescript", sample) THEN Detected("typescript", "TypeScript")
    ELSE IF looks("python", sample) THEN Detected("python", "Python")
    ELSE IF looks("sql", sample) THEN Detected("sql", "SQL")
    ELSE Detected("unknown", IF locale = "es" THEN "Lenguaje desconocido"
                                              ELSE "Unknown language")

RECURSIVE split(_, _)
\* code.split('\n'): cur is the line collected so far
split(code, cur) ==
    IF Len(code) = 0 THEN <<cur>>
    ELSE IF Head(code) = "\n" THEN <<cur>> \o split(Tail(code), <<>>)
    ELSE split(Tail(code), Append(cur, Head(code)))

RECURSIVE stripFrom(_, _)
\* raw.replace(/#.*$/, ''): the line up to its first comment sign
stripFrom(line, sign) ==
    IF Len(line) = 0 \/ Head(line) = sign THEN <<>>
    ELSE <<Head(line)>> \o stripFrom(Tail(line), sign)

\* raw.replace(/\t/g, '  ')
untab(line) == [i \in 1..Len(line) |-> IF line[i] = "\t" THEN "  " ELSE line[i]]

RECURSIVE keep(_, _)
\* Array.prototype.filter with the engine's line test
keep(ls, prefixes) ==
    IF Len(ls) = 0 THEN <<>>
    ELSE IF Len(Head(ls)) > 0 /\ Head(ls)[1] \notin prefixes
         THEN <<Head(ls)>> \o keep(Tail(ls), prefixes)
         ELSE keep(Tail(ls), prefixes)

\* the lines the engine for the id runs: buildGenericTrace strips `#`
\* comments and drops `//` lines, buildJavaTrace and buildCStyleTrace strip
\* `//` comments and drop their header lines
parsedLines(code, languageId) ==
    LET raw == split(code, <<>>)
        generic == [i \in 1..Len(raw) |-> trim(stripFrom(untab(raw[i]), "#"))]
        brace == [i \in 1..Len(raw) |-> trim(stripFrom(raw[i], "//"))]
    IN CASE engineOf(languageId) = "java" ->
              keep(brace, {"public class", "public static void main"})
         [] engineOf(languageId) = "cstyle" ->
              keep(brace, {"package ", "import ", "func main()", "fn main()"})
         [] OTHER -> keep(generic, {"//"})

\* none of the pieces completes a statement the engines recognise (every
\* print pattern asks for `(...)`, every assignment for `=`), so each line
\* is one that executeLine passes to its last pushTrace
lineOf(pieces) == Plain(join(pieces, ""))

SourceTexts ==
    UNION {[1..n -> Pieces] : n \in 0..MaxSourceLen}

Idle ==
    /\ vars = <<>> /\ arrays = <<>> /\ outputs = <<>> /\ trace = <<>> /\ step = 1
    /\ result = <<>> /\ pc = 0 /\ loopCounters = <<>>

InitDetect ==
    /\ mode = "detect"
    /\ \E code \in SourceTexts, locale \in {"es", "en"} :
         input = [languageId |-> "", locale |-> locale, lines |-> <<>>,
                  code |-> code, detected |-> <<>>, earlier |-> <<>>]
    /\ Idle /\ stack = <<>>
    /\ sandbox = sandboxStart /\ ai = aiStart

\* const detected = useMemo(() => detectLanguage(code, locale), ...)
Detect ==
    /\ mode = "detect" /\ Len(input.detected) = 0
    /\ input' = [input EXCEPT !.detected = <<detectLanguage(input.code, input.locale)>>]
    /\ UNCHANGED <<mode, vars, arrays, outputs, trace, step, stack, result, pc,
                   loopCounters, sandbox, ai>>

\* the effect that calls buildTraceForCode(code, detected.id, locale): the
\* engine for the id starts on the lines it keeps
BuildTrace ==
    /\ mode = "detect" /\ Len(input.detected) = 1
    /\ LET id == input.detected[1].id
           ls == parsedLines(input.code, id)
       IN /\ input' = [input EXCEPT !.languageId = id,
                                    !.lines = [i \in 1..Len(ls) |-> lineOf(ls[i])]]
          /\ stack' = <<Frame(0, Len(ls))>>
    /\ mode' = "engine"
    /\ UNCHANGED <<vars, arrays, outputs, trace, step, result, pc, loopCounters,
                   sandbox, ai>>

InitEngine ==
    /\ mode = "engine" /\ input \in EngineInputs
    /\ Idle /\ stack = <<Frame(0, Len(input.lines))>>
    /\ sandbox = sandboxStart /\ ai = aiStart

InitMiniko ==
    /\ mode = "miniko" /\ input \in MinikoInputs
    /\ Idle /\ stack = <<>>
    /\ sandbox = sandboxStart /\ ai = aiStart

InitSandbox ==
    /\ mode = "sandbox" /\ input = Input("javascript", <<>>)
    /\ Idle /\ stack = <<>>
    /\ sandbox = sandboxStart /\ ai = aiStart

InitExplain ==
    /\ mode = "explain"
    /\ \E code \in ExplainInputs, locale \in {"es", "en"} :
         /\ input = [code[1] EXCEPT !.locale = locale]
         /\ ai = [aiStart EXCEPT !.at = "ready", !.headerBraces = code[2]]
    /\ Idle /\ stack = <<>>
    /\ sandbox = sandboxStart

Init == InitEngine \/ InitMiniko \/ InitSandbox \/ InitDetect \/ InitExplain

Next ==
    \/ ExecLine \/ JavaSkipBrace \/ IfStep
    \/ LoopEnter \/ LoopIterate \/ LoopExit \/ LoopAdvance
    \/ BlockReturn \/ Return
    \/ MkSkip \/ MkSet \/ MkMath \/ MkPrint \/ MkIf \/ MkEndif
    \/ MkLoop \/ MkEnd \/ MkUnknown \/ MkReturn
    \/ WorkerLog \/ WorkerComplete \/ ScriptPost \/ WorkerFault
    \/ DeliverMessage \/ DeliverError \/ TimerFire
    \/ Detect \/ BuildTrace \/ CallAgain
    \/ AiExplain \/ AiFetchSettles \/ AiBodySettles \/ AiOutputDone

Spec == Init /\ [][Next]_allVars

\* one turn of the while loop of runMiniko, or its return
MkStep ==
    \/ MkSkip \/ MkSet \/ MkMath \/ MkPrint \/ MkIf \/ MkEndif \/ MkLoop \/ MkEnd
    \/ MkUnknown \/ MkReturn

\* the timer task is run once its delay has passed, and runMiniko runs
\* without suspension
FairSpec == Spec /\ WF_allVars(TimerFire) /\ WF_allVars(MkStep)

(***************************************************************************)
(* Properties.                                                             *)
(***************************************************************************)
frames == {stack[k] : k \in 1..Len(stack)}
loopsInProgress == {f.loop[1] : f \in {g \in frames : Len(g.loop) = 1}}

\* a Java for loop whose test holds now and for every later value of its
\* counter: the counter only grows, by one per iteration, and the limit is
\* read once
holdsForEver(l) ==
    /\ l.form = "forjava"
    /\ compare(l.i, l.limit, l.line.op)
    /\ \/ l.line.op \in {">", ">="}
       \/ l.line.op = "!=" /\ l.i > l.limit

\* C1: buildTraceForCode terminates for every source and dialect: no engine
\* is ever inside a loop that cannot end.
C1_NoEndlessLoop ==
    mode = "engine" => \A l \in loopsInProgress : ~holdsForEver(l)

stepsInOrder(t) == \A k \in 1..Len(t) : t[k].step = k

\* C2: in every trace of buildTraceForCode (as produced, and as returned
\* after truncation) and of runMiniko the step numbers are 1, 2, ..., n in
\* list order, and the next number to hand out is n + 1.
C2_StepNumbers ==
    /\ mode \in {"engine", "miniko"} => stepsInOrder(trace) /\ step = Len(trace) + 1
    /\ mode = "engine" /\ Len(result) = 1 => stepsInOrder(result[1])
    /\ mode = "miniko" /\ Len(result) = 1 => stepsInOrder(result[1].trace)

\* a looping run of more than MAX_STEPS entries has been returned
C2_Witness ==
    /\ mode = "engine" /\ Len(result) = 1
    /\ Len(trace) > MAX_STEPS /\ Len(result[1]) = MAX_STEPS
    /\ \E j, k \in 1..Len(trace) : j < k /\ trace[j].line = trace[k].line

\* what a reader of an entry sees in one of its maps or lists: a copy shows
\* what was copied, an alias shows the live object; a list-valued binding
\* shows the elements of its array
mapContents(handle, m, heap) ==
    LET seen == IF handle.live THEN m ELSE handle.val IN
    { <<name, seen[name].t,
        IF isArray(seen[name]) THEN heap[seen[name].v] ELSE <<seen[name].v>> >>
      : name \in DOMAIN seen }
listContents(handle, out) == IF handle.live THEN out ELSE handle.val
entryContents(e, m, heap, out) ==
    << mapContents(e.before, m, heap), mapContents(e.after, m, heap),
       listContents(e.outputsBefore, out), listContents(e.outputsAfter, out) >>
traceContents == [k \in 1..Len(trace) |-> entryContents(trace[k], vars, arrays, outputs)]

\* a later call starts: its trace is a new, empty list
newCall == Len(result) = 1 /\ Len(result') = 0
\* the same for the entries of the trace an earlier call returned
earlierContents ==
    IF Len(input.earlier) = 0 THEN <<>>
    ELSE [k \in 1..Len(input.earlier[1].trace) |->
            entryContents(input.earlier[1].trace[k], vars, arrays, outputs)]

\* C3: no step of a run changes the contents of the before/after maps or of
\* the outputsBefore/outputsAfter lists of an entry recorded earlier,
\* list-valued bindings included.
C3_SnapshotsKeep ==
    [][/\ (mode = "engine" /\ ~newCall) =>
            \A k \in 1..Len(trace) :
                k <= Len(trace') /\ traceContents'[k] = traceContents[k]
       /\ (mode = "engine" /\ Len(input.earlier) = 1) =>
            earlierContents' = earlierContents]_allVars

\* an entry shows a list under a name that has since been rebound to another
\* list, and the output log has grown since an entry copied it
C3_Witness ==
    /\ mode = "engine"
    /\ \E k \in 1..Len(trace) : \E name \in DOMAIN vars :
          /\ ~trace[k].after.live
          /\ name \in DOMAIN trace[k].after.val
          /\ isArray(trace[k].after.val[name]) /\ isArray(vars[name])
          /\ arrays[vars[name].v] # arrays[trace[k].after.val[name].v]
    /\ \E k \in 1..Len(trace) :
          ~trace[k].outputsAfter.live /\ trace[k].outputsAfter.val # outputs

\* the texts under which a line can appear in the trace: its own and those of
\* the clauses it carries
textsOf(line) ==
    {line.text} \cup {line.init[k].text : k \in 1..Len(line.init)}
                \cup {line.upd[k].text : k \in 1..Len(line.upd)}

\* the texts of a loop in progress: its body lines, its header and its update
\* clause
loopTexts(l) ==
    UNION {textsOf(lineAt(j)) : j \in l.bodyStart..(l.blockEnd - 1)}
      \cup {l.line.text} \cup {l.line.upd[k].text : k \in 1..Len(l.line.upd)}

\* the entries of the current execution of a loop are the longest tail of the
\* trace made of the loop's own texts: the entry before it (for a
\* three-clause loop the entry of its init clause) is none of them
loopTail(l) ==
    LET outside == {k \in 1..Len(trace) : trace[k].line \notin loopTexts(l)}
    IN IF outside = {} THEN 0
       ELSE CHOOSE k \in outside : \A j \in outside : j <= k

timesInTail(l, text) ==
    Cardinality({k \in (loopTail(l) + 1)..Len(trace) : trace[k].line = text})

\* the lines of the loop's block that are statements of the block itself,
\* not of a block nested in it
bodyStatements(l) ==
    {j \in l.bodyStart..(l.blockEnd - 1) :
        /\ lineAt(j).kind \notin {"open", "close", "if", "else", "for3", "forgo",
                                  "forrust", "forlist"}
        /\ ~lineAt(j).els
        /\ \A k \in l.bodyStart..(j - 1) :
              k \in DOMAIN braceMap => braceMap[k] < j}

\* what marks one iteration in the trace: the update clause's entry of a
\* three-clause loop, the loop entry of a Go-style loop
iterationMark(l) == IF l.form = "for3" THEN l.line.upd[1].text ELSE l.line.text

guardedLoopAtTest ==
    /\ mode = "engine" /\ engine = "cstyle" /\ inLoop("test")
    /\ loop.form \in {"for3", "forgo"}
    /\ evaluateCondition(loop.line.a, loop.line.op, loop.line.b, vars, arrays)

firstAtOrBelow(from, ind) ==
    LET found == {j \in from..(lineCount - 1) : lineAt(j).indent <= ind}
    IN IF found = {} THEN lineCount
       ELSE CHOOSE j \in found : \A i \in found : j <= i
thenEnd(h) ==
    IF engine = "generic" THEN firstAtOrBelow(h + 1, lineAt(h).indent) ELSE braceMap[h]
elseLine(h) ==
    IF engine = "generic" \/ lineAt(thenEnd(h)).els THEN thenEnd(h) ELSE thenEnd(h) + 1
hasMatchedElse(h) ==
    IF engine = "generic"
    THEN /\ thenEnd(h) < lineCount
         /\ lineAt(thenEnd(h)).kind = "else"
         /\ lineAt(thenEnd(h)).indent = lineAt(h).indent
    ELSE /\ h \in DOMAIN braceMap
         /\ elseLine(h) < lineCount
         /\ lineAt(elseLine(h)).els
         /\ elseLine(h) = thenEnd(h) \/ lineAt(elseLine(h)).kind = "else"
         /\ elseLine(h) \in DOMAIN braceMap
elseEnd(h) ==
    IF engine = "generic" THEN firstAtOrBelow(elseLine(h) + 1, lineAt(h).indent)
    ELSE braceMap[elseLine(h)]
thenLines(h) == (h + 1)..(thenEnd(h) - 1)
elseLines(h) == (elseLine(h) + 1)..(elseEnd(h) - 1)
afterElse(h) == IF engine = "generic" THEN elseEnd(h) ELSE elseEnd(h) + 1
branchTexts(range) == UNION {textsOf(lineAt(j)) : j \in range}

\* the lines of a branch that are statements of the branch itself
controlKinds == {"open", "close", "if", "else", "for3", "forgo", "forrust",
                 "forlist", "forrange", "forjava"}
encloses(k, j) ==
    /\ lineAt(k).kind \in controlKinds \/ lineAt(k).els
    /\ IF engine = "generic"
       THEN \A i \in (k + 1)..j : lineAt(i).indent > lineAt(k).indent
       ELSE k \in DOMAIN braceMap /\ braceMap[k] > j
ownStatements(range) ==
    {j \in range : /\ lineAt(j).kind \notin controlKinds /\ ~lineAt(j).els
                   /\ \A k \in range : k < j => ~encloses(k, j)}

\* the if statements with a matched else that a condition entry stands for
isConditionEntry(e) == e.note \in {conditionNote(TRUE), conditionNote(FALSE)}
ifLineOf(e) ==
    {h \in 0..(lineCount - 1) :
        isIf(lineAt(h)) /\ lineAt(h).text = e.line /\ hasMatchedElse(h)}

\* the entries that follow condition entry k for as long as they come from
\* one of the two branches of the if on line h: the position of the first
\* entry that does not
RECURSIVE firstNotIn(_, _)
firstNotIn(m, texts) ==
    IF m > Len(trace) \/ trace[m].line \notin texts THEN m
    ELSE firstNotIn(m + 1, texts)
branchRunEnd(k, h) ==
    firstNotIn(k + 1, branchTexts(thenLines(h)) \cup branchTexts(elseLines(h)))
timesIn(from, to, text) ==
    Cardinality({m \in from..to : trace[m].line = text})

oneBranchOnly(k, h) ==
    LET outcome == trace[k].note = conditionNote(TRUE)
        chosen == IF outcome THEN thenLines(h) ELSE elseLines(h)
        other == IF outcome THEN elseLines(h) ELSE thenLines(h)
        last == branchRunEnd(k, h) - 1
    IN /\ \A m \in (k + 1)..last :
             /\ trace[m].line \in branchTexts(chosen)
             /\ trace[m].line \notin branchTexts(other)
       /\ \A j \in ownStatements(chosen) : timesIn(k + 1, last, lineAt(j).text) = 1

conditionEntryOnly(h) ==
    LET outcome == evaluateCondition(current.a, current.op, current.b, vars, arrays)
        e == trace'[Len(trace')]
    IN /\ Len(trace') = Len(trace) + 1
       /\ SubSeq(trace', 1, Len(trace)) = trace
       /\ e.line = current.text /\ e.note = conditionNote(outcome)
       /\ vars' = vars /\ outputs' = outputs /\ arrays' = arrays
       /\ entryContents(e, vars', arrays', outputs')
            = << mapContents(Copy(vars), vars, arrays), mapContents(Copy(vars), vars, arrays),
                 outputs, outputs >>
       /\ stack'[Len(stack) ].index = afterElse(h)
       /\ Len(stack') = Len(stack) + 1
       /\ stack'[Len(stack')].index =
             (IF outcome THEN h + 1 ELSE elseLine(h) + 1)
       /\ stack'[Len(stack')].end = (IF outcome THEN thenEnd(h) ELSE elseEnd(h))

C5_Truncation ==
    mode = "engine" /\ Len(result) = 1 =>
        /\ Len(result[1]) = Min(MAX_STEPS, Len(trace))
        /\ Len(result[1]) <= MAX_STEPS
        /\ \A k \in 1..Len(result[1]) : result[1][k] = trace[k]
        /\ Len(trace) <= MAX_STEPS => result[1] = trace

\* a trace of more than MAX_STEPS entries was cut
C5_Witness ==
    /\ mode = "engine" /\ Len(result) = 1
    /\ Len(trace) > MAX_STEPS
    /\ result[1] # trace /\ result[1] = SubSeq(trace, 1, MAX_STEPS)

\* the list a collection loop's name was bound to when the loop started, read
\* from the trace: the store after the last entry before the loop's own
\* entries (the empty store when there is none)
listAtEntry(l) ==
    LET k == loopTail(l) IN
    IF k = 0 \/ l.line.b.name \notin DOMAIN trace[k].after.val THEN <<>>
    ELSE IF isArray(trace[k].after.val[l.line.b.name])
         THEN arrays[trace[k].after.val[l.line.b.name].v]
         ELSE <<>>

\* the positions of the loop's own entries in its current execution
loopEntries(l) ==
    {k \in (loopTail(l) + 1)..Len(trace) : trace[k].line = l.line.text}
nthLoopEntry(l, n) ==
    CHOOSE k \in loopEntries(l) : Cardinality({i \in loopEntries(l) : i <= k}) = n

iterationsAsListed(l) ==
    LET list == listAtEntry(l) IN
    /\ Cardinality(loopEntries(l)) = Len(list)
    /\ \A n \in 1..Len(list) :
          LET k == nthLoopEntry(l, n)
              next == IF n < Len(list) THEN nthLoopEntry(l, n + 1) ELSE Len(trace) + 1
          IN /\ trace[k].after.val[l.iterator] = NumV(list[n])
             /\ trace[k].note = label("Loop") \o " " \o l.iterator \o " = " \o ToString(list[n])
                                  \o " (" \o ToString(n) \o "/" \o ToString(Len(list)) \o ")"
             /\ \A j \in ownStatements(l.bodyStart..(l.blockEnd - 1)) :
                   timesIn(k + 1, next - 1, lineAt(j).text) = 1

collectionLoopAtTest ==
    mode = "engine" /\ inLoop("test") /\ loop.form = "forlist"

\* C7: a collection loop makes one loop entry per element of the list its
\* name was bound to when the loop started, binding the elements in order and
\* running the body once after each, whatever the body rebinds; a name that
\* is unbound or bound to a number gives no iteration; Scenario A ends with
\* the output log <<"60">>.
C7_CollectionLoop ==
    [][/\ collectionLoopAtTest =>
            /\ Len(stack') = Len(stack) =>
                  iterationsAsListed(loop) /\ trace' = trace /\ vars' = vars
            /\ Len(stack') > Len(stack) =>
                  Cardinality(loopEntries(loop)) < Len(listAtEntry(loop))
       /\ (mode = "engine" /\ input.lines = PyScenarioA /\ Len(result') = 1)
            => outputs' = <<"60">>]_allVars

\* a loop over a list has ended whose name the body had rebound to a list of
\* another length
C7_Witness ==
    /\ mode = "engine" /\ Len(result) = 1
    /\ \E k \in 1..Len(trace) : \E name \in DOMAIN vars :
          /\ trace[k].note = "Loop x = 2 (2/2)"
          /\ isArray(vars[name]) /\ Len(arrays[vars[name].v]) = 3
          /\ trace[k].line = "for x in " \o name \o ":"

RECURSIVE nestsFrom(_, _)
\* the control lines from line i on close the blocks of `open`, innermost
\* first, and open and close their own in each other
nestsFrom(i, open) ==
    IF i >= lineCount THEN open = <<>>
    ELSE LET cmd == lineAt(i).cmd
             innermost == open[Len(open)]
             others == SubSeq(open, 1, Len(open) - 1)
         IN CASE cmd \in {"if", "loop"} -> nestsFrom(i + 1, Append(open, cmd))
              [] cmd = "endif" -> open # <<>> /\ innermost = "if" /\ nestsFrom(i + 1, others)
              [] cmd = "end" -> open # <<>> /\ innermost = "loop" /\ nestsFrom(i + 1, others)
              [] OTHER -> nestsFrom(i + 1, open)
\* the if/endif and loop/end of the program are well nested
wellNested == nestsFrom(0, <<>>)

\* the registered loops of a toy script and the lines of their bodies
loopLines == {L \in DOMAIN jumps.loopToEnd : lineAt(L).cmd = "loop"}
blockStarts == DOMAIN jumps.loopToEnd \cup DOMAIN jumps.ifToEnd
blockClose(s) == IF s \in DOMAIN jumps.loopToEnd THEN jumps.loopToEnd[s] ELSE jumps.ifToEnd[s]
\* the instructions of the body of the loop on line L that are not inside a
\* block nested in that body (the opening line of a nested block is one)
bodyInstructions(L) ==
    {j \in (L + 1)..(jumps.loopToEnd[L] - 1) :
        /\ lineAt(j).cmd \notin {"", "#"}
        /\ \A b \in blockStarts : ~(L < b /\ b < j /\ j <= blockClose(b))}

\* the first position after k whose entry was not executed inside the loop
RECURSIVE firstOutside(_, _, _, _)
firstOutside(t, m, from, to) ==
    IF m > Len(t) \/ t[m].at < from \/ t[m].at > to THEN m
    ELSE firstOutside(t, m + 1, from, to)

positionsAt(t, from, to, at) == {m \in from..to : t[m].at = at}

\* visit k of the loop on line L ran its body n times
loopVisitAsCounted(t, k, L) ==
    LET n == resolveValue(arg(lineAt(L), 1), t[k].state)
        E == jumps.loopToEnd[L]
        last == firstOutside(t, k + 1, L + 1, E) - 1
        ends == positionsAt(t, k + 1, last, E)
    IN IF n >= 1
       THEN /\ t[k].note = "loop x" \o ToString(n)
            /\ \A j \in bodyInstructions(L) :
                  Cardinality(positionsAt(t, k + 1, last, j)) = n
            /\ Cardinality(ends) = n
            /\ last \in ends /\ t[last].note = "end loop"
            /\ \A m \in ends \ {last} :
                  t[m].note = "repeat loop ("
                       \o ToString(n - Cardinality({i \in ends : i <= m})) \o " left)"
       ELSE /\ t[k].note = "skip loop"
            /\ last = k
            /\ k < Len(t) => t[k + 1].at > E

\* C8: in a finished run of runMiniko on a well nested program every visit of
\* a registered `loop c` line with operand value n >= 1 is followed by
\* exactly n executions of its body and n executions of its `end` (n - 1
\* repeats, then the fall through),
\* whatever the body does to the operand and however often an enclosing loop
\* comes back to the line; with n <= 0 nothing of the body runs and the next
\* entry lies behind the matching `end`.
C8_LoopCount ==
    mode = "miniko" /\ wellNested /\ Len(result) = 1 =>
        \A k \in 1..Len(result[1].trace) :
            result[1].trace[k].at \in loopLines =>
                loopVisitAsCounted(result[1].trace, k, result[1].trace[k].at)

\* an inner loop was entered again by its enclosing loop with a larger count
C8_Witness ==
    /\ mode = "miniko" /\ wellNested /\ Len(result) = 1
    /\ \E j, k \in 1..Len(trace) :
          /\ j < k /\ trace[j].at = trace[k].at /\ trace[k].at \in loopLines
          /\ trace[j].note = "loop x2" /\ trace[k].note = "loop x3"

settled == Len(sandbox.promise) = 1

\* C9: whatever the order of the timeout, the worker's messages and its error
\* event, resolve is called at most once per call of runJavaScript, and a
\* settled promise keeps its result.
C9_ResolvedOnce ==
    [][mode = "sandbox" =>
         /\ sandbox'.resolveCalls <= 1
         /\ settled => /\ sandbox'.promise = sandbox.promise
                       /\ sandbox'.resolveCalls = sandbox.resolveCalls]_allVars

\* the timer settled the promise and the completion message and the error
\* event both arrived afterwards
C9_Witness ==
    /\ mode = "sandbox" /\ settled
    /\ sandbox.promise[1].timedOut /\ sandbox.timer = "fired"
    /\ sandbox.worker = "done" /\ Len(sandbox.queue) = 0
    /\ sandbox.error = "delivered"
    /\ sandbox.resolveCalls = 1

\* C10: every call of runJavaScript settles in the end; when it settles with
\* the worker having neither posted its completion message nor raised an
\* error event, the timer has fired, the worker is terminated and the result
\* has timedOut = true.
C10_Settles ==
    /\ (mode = "sandbox") ~> settled
    /\ [](mode = "sandbox" /\ settled /\ sandbox.worker = "running"
              /\ ~sandbox.scriptPosted /\ sandbox.error = "none"
            => /\ sandbox.promise[1].timedOut
               /\ sandbox.promise[1].error = <<>>
               /\ sandbox.timer = "fired" /\ sandbox.terminated)

\* the timer cut short a script that was still running after it had logged
C10_Witness ==
    /\ mode = "sandbox" /\ settled
    /\ sandbox.worker = "running" /\ ~sandbox.scriptPosted /\ sandbox.error = "none"
    /\ sandbox.promise[1].timedOut /\ sandbox.terminated
    /\ Len(sandbox.logs) = 1 /\ sandbox.posted = 1

(***************************************************************************)
(* C11.  What the caller holds once the promise has settled: the result    *)
(* object, with its logs list read through the array it shares.            *)
(***************************************************************************)
resultLogs(r) == IF r.logs = Live THEN sandbox.logs ELSE <<>>
callerResult ==
    IF Len(sandbox.promise) = 0 THEN <<>>
    ELSE <<[logs |-> resultLogs(sandbox.promise[1]),
            error |-> sandbox.promise[1].error,
            timedOut |-> sandbox.promise[1].timedOut]>>

whitespaceOnly(code) == \A i \in 1..Len(code) : code[i] \in Whitespace
classified == Len(input.detected) = 1
detectedId == input.detected[1].id

\* C12: a source that is empty or holds only white space is classified as
\* 'empty' and its trace has no entries; no other source is classified as
\* 'empty'.
C12_EmptySource ==
    /\ classified => (detectedId = "empty" <=> whitespaceOnly(input.code))
    /\ (mode = "engine" /\ classified /\ whitespaceOnly(input.code)) =>
           /\ trace = <<>>
           /\ Len(result) = 1 => result[1] = <<>>

C12_Witness ==
    /\ mode = "engine" /\ classified /\ input.code = <<"\t", "\n">>
    /\ detectedId = "empty"
    /\ Len(result) = 1

DialectOrder ==
    <<"java", "csharp", "cpp", "c", "go", "rust", "typescript", "python", "sql">>
\* the places in DialectOrder of the dialects whose marker pattern the text carries
markersIn(code) == {k \in 1..Len(DialectOrder) : looks(DialectOrder[k], trim(code))}

\* C13: every source is given exactly one id out of the eleven; of the
\* dialects whose marker pattern the text carries the earliest in the order
\* is returned, and 'unknown' is returned only when no marker matches.
C13_FirstMarkerWins ==
    classified =>
        /\ detectedId \in {"empty", "unknown"} \cup {DialectOrder[k] : k \in 1..Len(DialectOrder)}
        /\ (~whitespaceOnly(input.code) /\ markersIn(input.code) # {}) =>
               \E k \in markersIn(input.code) :
                   /\ detectedId = DialectOrder[k]
                   /\ \A j \in markersIn(input.code) : k <= j
        /\ detectedId = "unknown" => markersIn(input.code) = {}

C13_Witness ==
    /\ classified /\ input.code = <<"fmt.Print", "System.out.println">>
    /\ Cardinality(markersIn(input.code)) = 2
    /\ detectedId = "java"

(***************************************************************************)
(* C14.  Division by zero and the numbers the store holds.                 *)
(***************************************************************************)
storedNumbers(m) ==
    IF mode = "miniko" THEN {m[n] : n \in DOMAIN m}
    ELSE {m[n].v : n \in {k \in DOMAIN m : m[k].t = "num"}}
allFinite(m) == \A x \in storedNumbers(m) : isFinite(x)

\* a `/=` statement or a `name = a / b` statement whose divisor is zero
dividesByZero ==
    /\ atLine /\ current.kind \in {"compound", "assign"} /\ current.op = "/"
    /\ resolveNumeric(current.b, vars, arrays) = 0
dividend ==
    IF current.kind = "compound" THEN resolveNumericValue(MapGet(vars, current.tgt))
    ELSE resolveNumeric(current.a, vars, arrays)
\* a toy `div name value` whose value is zero
toyDividesByZero ==
    /\ mkAt({"div"}) /\ resolveValue(arg(mkLine, 2), vars) = 0
toyBase ==
    IF tokenName(arg(mkLine, 1)) \in DOMAIN vars THEN vars[tokenName(arg(mkLine, 1))] ELSE 0

\* a zero divisor leaves the dividend in place
C14_ZeroDivisorKeeps ==
    [][/\ dividesByZero => vars'[current.tgt] = NumV(dividend)
       /\ toyDividesByZero => vars'[tokenName(arg(mkLine, 1))] = toyBase]_allVars

\* C14: a division by zero returns the dividend (in the engines and for the
\* toy `div`), and an operation on finite operands never stores an infinite
\* or NaN value.
C14_DivisionSafety ==
    [][/\ dividesByZero => vars'[current.tgt] = NumV(dividend)
       /\ toyDividesByZero => vars'[tokenName(arg(mkLine, 1))] = toyBase
       /\ allFinite(vars) => allFinite(vars')]_allVars

(***************************************************************************)
(* C15, C16.  Two calls of buildTraceForCode on the same source.           *)
(***************************************************************************)
bothReturned == mode = "engine" /\ Len(input.earlier) = 1 /\ Len(result) = 1
earlierCall == input.earlier[1]
\* an entry without its action/note text; `state` is formatState(before)
entryFacts(e) ==
    [step |-> e.step, line |-> e.line,
     before |-> mapContents(e.before, vars, arrays),
     after |-> mapContents(e.after, vars, arrays),
     outputsBefore |-> listContents(e.outputsBefore, outputs),
     outputsAfter |-> listContents(e.outputsAfter, outputs),
     outputLine |-> e.outputLine, op |-> e.op]
sameFacts(t1, t2) ==
    /\ Len(t1) = Len(t2)
    /\ \A k \in 1..Len(t1) : entryFacts(t1[k]) = entryFacts(t2[k])
sameTexts(t1, t2) ==
    /\ Len(t1) = Len(t2)
    /\ \A k \in 1..Len(t1) : t1[k].note = t2[k].note /\ t1[k].action = t2[k].action

\* C15: the traces built for one source with locale 'es' and with locale 'en'
\* have the same length and agree entry by entry on everything but the
\* action/note text.
C15_LocaleOnlyInNotes ==
    (bothReturned /\ earlierCall.locale # input.locale) =>
        sameFacts(earlierCall.trace, result[1])

C15_Witness ==
    /\ bothReturned /\ earlierCall.locale = "en" /\ input.locale = "es"
    /\ input.lines = PyScenarioA
    /\ result[1][Len(result[1])].outputLine = <<"60">>
    /\ \A k \in 1..Len(result[1]) : result[1][k].note # earlierCall.trace[k].note

AnyPlaceholder == PercentPlaceholders \cup {"{}"}

RECURSIVE inOrder(_, _)
\* the k-th value in place of the k-th placeholder, left to right; what is
\* left of either when the other runs out stays as it is
inOrder(pieces, values) ==
    IF Len(pieces) = 0 \/ Len(values) = 0 THEN pieces
    ELSE IF Head(pieces) \in AnyPlaceholder
         THEN <<Head(values)>> \o inOrder(Tail(pieces), Tail(values))
    ELSE <<Head(pieces)>> \o inOrder(Tail(pieces), values)

placeholderPrint(styles) ==
    /\ atLine /\ engine = "cstyle" /\ current.kind = "print"
    /\ current.op \in {"printf", "fmt.Printf", "println!"}
    /\ \E i \in 1..Len(current.fmt) : current.fmt[i] \in styles
expectedLine ==
    join(trim(without(inOrder(current.fmt, renderAll(current.items, vars, arrays)),
                      "\\n")), "")

\* the %-style placeholders are filled in order
C17_PercentInOrder ==
    [][placeholderPrint(PercentPlaceholders) =>
         outputs' = Append(outputs, expectedLine)]_allVars

\* C17: a placeholder-style print (printf, fmt.Printf, println!) puts the
\* k-th rendered argument in place of the k-th placeholder of the format,
\* for %d, %s, %f and for {}; further arguments are not substituted.
C17_PlaceholdersInOrder ==
    [][placeholderPrint(AnyPlaceholder) =>
         outputs' = Append(outputs, expectedLine)]_allVars

(***************************************************************************)
(* C18.  The two range loops of the Rust dialect.                          *)
(***************************************************************************)
rangeLines == {h \in 0..(lineCount - 1) : lineAt(h).kind \in {"forrust", "rangeexcl"}}
\* the values i takes: a, ..., b for `a..=b` and a, ..., b-1 for `a..b`
rangeValues(h) ==
    IF lineAt(h).kind = "forrust" THEN lineAt(h).start.n..lineAt(h).b.n
    ELSE lineAt(h).start.n..(lineAt(h).b.n - 1)
entriesOf(text) == {k \in 1..Len(trace) : trace[k].line = text}
\* the entries of the loop line, in order, bind i to a, a+1, ... ; each is a
\* loop entry; every body line runs once per value
runsAsRange(h) ==
    LET es == entriesOf(lineAt(h).text)
        it == lineAt(h).tgt
    IN /\ Cardinality(es) = Cardinality(rangeValues(h))
       /\ \A k \in es :
             /\ trace[k].note \notin {label("Execution")}
             /\ it \in DOMAIN trace[k].after.val
             /\ trace[k].after.val[it] =
                    NumV(lineAt(h).start.n + Cardinality({j \in es : j < k}))
       /\ \A j \in (h + 1)..(blockEndOf(h) - 1) :
             Cardinality(entriesOf(lineAt(j).text)) = Cardinality(rangeValues(h))

rustRun ==
    /\ mode = "engine" /\ input.languageId = "rust" /\ Len(stack) = 0
    /\ rangeLines # {}

\* the inclusive form alone
C18_InclusiveRange ==
    rustRun => \A h \in rangeLines : lineAt(h).kind = "forrust" => runsAsRange(h)

\* C18: in the Rust dialect `for i in a..=b` runs its body once for each
\* i = a, ..., b and `for i in a..b` once for each i = a, ..., b-1, each
\* iteration preceded by a loop entry that binds i.
C18_RangeLoops ==
    rustRun => \A h \in rangeLines : runsAsRange(h)

(***************************************************************************)
(* C19.  Lists in the output.                                              *)
(***************************************************************************)
\* a print of one name that is bound to a list
listPrint ==
    /\ atLine /\ current.kind = "print" /\ Len(current.items) = 1
    /\ current.items[1].k = "var" /\ current.items[1].name \in DOMAIN vars
    /\ isArray(vars[current.items[1].name])
printedList == arrays[vars[current.items[1].name].v]
item(n) == ToString(printedList[n])
inFull == "[" \o join([n \in 1..Len(printedList) |-> item(n)], ", ") \o "]"
elided ==
    "[" \o item(1) \o ", " \o item(2) \o ", " \o item(3) \o ", ..., "
        \o item(Len(printedList) - 1) \o ", " \o item(Len(printedList))
        \o "] (" \o ToString(Len(printedList)) \o " items)"

\* C19: a list of at most 8 items is rendered in full, in brackets and
\* separated by commas; a list of 9 or more items as its first 3 items, an
\* ellipsis, its last 2 items and a count equal to its length.
C19_ListRendering ==
    [][listPrint =>
         outputs' = Append(outputs, IF Len(printedList) <= 8 THEN inFull ELSE elided)]_allVars

C19_Witness ==
    /\ mode = "engine" /\ input.lines = PyLists
    /\ outputs = << "[1, 2, 3, 4, 5, 6, 7]", "[1, 2, 3, 4, 5, 6, 7, 8]",
                    "[1, 2, 3, ..., 8, 9] (9 items)",
                    "[10, 20, 30, ..., 90, 100] (10 items)" >>

(***************************************************************************)
(* C20.  One trace entry per executed instruction of runMiniko.            *)
(***************************************************************************)
KnownCommands ==
    {"set", "add", "sub", "mul", "div", "print", "if", "endif", "loop", "end"}
newEntry == trace'[Len(trace')]

\* C20: every executed instruction of runMiniko appends exactly one entry
\* whose state is the store after the instruction; blank lines and `#` lines
\* append nothing and consume no step; an unknown instruction is noted as
\* unknown, leaves store and output as they are and moves on by one line.
C20_OneEntryPerInstruction ==
    [][mkRunning =>
         /\ mkLine.cmd \in {"", "#"} =>
               trace' = trace /\ step' = step /\ vars' = vars /\ outputs' = outputs
         /\ mkLine.cmd \notin {"", "#"} =>
               /\ Len(trace') = Len(trace) + 1
               /\ SubSeq(trace', 1, Len(trace)) = trace
               /\ newEntry.step = step /\ step' = step + 1
               /\ newEntry.line = mkLine.text
               /\ newEntry.state = vars'
         /\ mkLine.cmd \notin KnownCommands \cup {"", "#"} =>
               /\ newEntry.note = "unknown command"
               /\ vars' = vars /\ outputs' = outputs /\ pc' = pc + 1]_allVars

C20_Witness ==
    /\ mode = "miniko" /\ input.lines = MkOddLines /\ Len(result) = 1
    /\ Len(trace) = 4 /\ step = 5
    /\ trace[1].note = "unknown command" /\ trace[1].state = <<>>
    /\ trace[2].state # trace[1].state

(***************************************************************************)
(* C21.  A false `if` of runMiniko continues behind its `endif`.           *)
(***************************************************************************)
RECURSIVE closingEndif(_, _)
\* the `endif` that closes the `if` whose body starts at line i, counting the
\* pairs nested inside, over the lines that read `if ...` and `endif`; -1
\* when none closes it
closingEndif(i, depth) ==
    IF i >= lineCount THEN -1
    ELSE CASE startsWithIfSpace(lineAt(i)) -> closingEndif(i + 1, depth + 1)
           [] isEndifText(lineAt(i)) ->
                IF depth = 0 THEN i ELSE closingEndif(i + 1, depth - 1)
           [] OTHER -> closingEndif(i + 1, depth)

RECURSIVE nextInstruction(_)
\* the first line at or after i that is neither blank nor a comment
nextInstruction(i) ==
    IF i >= lineCount \/ lineAt(i).cmd \notin {"", "#"} THEN i
    ELSE nextInstruction(i + 1)

ifEntries == { k \in 1..Len(trace) : lineAt(trace[k].at).cmd = "if" }
conditionAt(k) == evaluateConditionTokens(lineAt(trace[k].at), trace[k].state)
\* where the run has to go on after the `if` of entry k
continuation(k) ==
    LET at == trace[k].at
        close == IF startsWithIfSpace(lineAt(at)) THEN closingEndif(at + 1, 0) ELSE -1
    IN IF ~conditionAt(k) /\ close >= 0 THEN nextInstruction(close + 1)
       ELSE nextInstruction(at + 1)

\* C21: after an `if` whose condition is false and that an `endif` closes, the
\* next instruction executed and traced is the first one behind that `endif`,
\* also with pairs nested in between; after an `if` whose condition is true it
\* is the next line.  The `if` itself changes neither store nor output.
C21_FalseIfSkipsToEndif ==
    mode = "miniko" =>
      \A k \in ifEntries :
        /\ k < Len(trace) => trace[k + 1].at = continuation(k)
        /\ k = Len(trace) => nextInstruction(pc) = continuation(k)
        /\ k > 1 => trace[k].state = trace[k - 1].state

C21_Witness ==
    /\ mode = "miniko" /\ input.lines = MkNestedIf /\ Len(result) = 1
    /\ \E k \in ifEntries :
         /\ ~conditionAt(k) /\ trace[k].at = 1 /\ closingEndif(2, 0) = 7
         /\ trace[k + 1].at = 9
    /\ \E k \in ifEntries :
         /\ conditionAt(k) /\ trace[k + 1].at = trace[k].at + 1
    /\ outputs = <<"5", "6">>

(***************************************************************************)
(* C22.  handleAiExplain: failures of the remote call are caught.          *)
(***************************************************************************)
explained == ai.at = "done"
\* the remote call failed: no response, a status that is not OK, a body that
\* cannot be read or parsed, or one that holds no text to normalize
callFailed ==
    LET reply == ai.reply[1] IN
    \/ reply.fetch = "rejects"
    \/ ~reply.ok
    \/ Len(reply.data) = 0
    \/ reply.data[1].isNull
    \/ Len(reply.data[1].answer) = 1 /\ ~reply.data[1].answer[1].isString
localSummary == buildLocalExplanation(input.lines, input.locale)

\* Once the handler has run to its end, a failed call has left aiStatus =
\* 'error' and an answer made of the error heading, a message and the local
\* summary of the code; any other call has left aiStatus = 'idle' and an
\* answer; 'loading' is the status exactly between the press of the button
\* and that end.
C22_StatusByOutcome ==
    /\ ai.at \in {"none", "ready", "done"} => ai.aiStatus # "loading"
    /\ ai.at \in {"fetch", "body", "output"} => ai.aiStatus = "loading" /\ ai.aiAnswer = <<>>
    /\ explained /\ callFailed =>
         /\ ai.aiStatus = "error"
         /\ Len(ai.aiAnswer) >= 4
         /\ ai.aiAnswer[1] = translation("aiError") /\ ai.aiAnswer[2] # ""
         /\ ai.aiAnswer[Len(ai.aiAnswer)] = localSummary
    /\ explained /\ ~callFailed => ai.aiStatus = "idle" /\ ai.aiAnswer # <<>>

\* C22: when the remote explanation call fails, handleAiExplain ends with
\* aiStatus = 'error' and the fallback answer, on success with 'idle', and
\* in no case does aiStatus remain 'loading' after the call has completed:
\* the handler is then never inside a computation that cannot end.
C22_LoadingEnds ==
    ai.at = "output" => \A l \in loopsInProgress : ~holdsForEver(l)

(***************************************************************************)
(* C23.  The loop entry of an iteration comes before its body.             *)
(***************************************************************************)
iterationStarts == inLoop("test") /\ loopCondition(loop, Run)
bodyReturned == inLoop("update")
\* the step pushes one entry, on the loop's line, whose `after` binds the
\* iterator to the value it has in the iteration
pushesLoopEntry ==
    /\ Len(trace') = Len(trace) + 1
    /\ trace'[Len(trace')].line = loop.line.text
    /\ loop.iterator \in DOMAIN vars'
    /\ trace'[Len(trace')].after = Copy(vars')

\* The forms that push their own entry (range, collection, Java for, Go-style
\* with ++ or --, Rust inclusive range): one loop entry at the start of each
\* iteration, nothing after the body.
C23_OwnEntryForms ==
    [][(running /\ Len(top.loop) = 1 /\ loop.form # "for3"
        /\ (loop.form = "forgo" => loop.line.upd[1].kind \in {"inc", "dec"})) =>
         /\ iterationStarts => pushesLoopEntry
         /\ bodyReturned => trace' = trace]_allVars

\* C23: in every loop form of every engine each iteration first contributes
\* one loop entry, whose `after` shows the loop variable of that iteration,
\* then the entries of its body, and the loop adds no entry after the body.
C23_LoopEntryBeforeBody ==
    [][/\ iterationStarts => pushesLoopEntry
       /\ bodyReturned => trace' = trace]_allVars

(***************************************************************************)
(* C24, C25.  The block map of the brace engines.                          *)
(***************************************************************************)
braceEngine == mode = "engine" /\ engine # "generic"
bracesOn(i) == lineAt(i).br
Openers == {p \in (0..(lineCount - 1)) \X (1..2) :
              p[2] <= Len(bracesOn(p[1])) /\ bracesOn(p[1])[p[2]] = "{"}

RECURSIVE closerFrom(_, _, _)
\* the line of the `}` that closes a block, found by counting the braces
\* from position (i, col) on; -1 when the input ends first
closerFrom(i, col, depth) ==
    IF i >= lineCount THEN -1
    ELSE IF col > Len(bracesOn(i)) THEN closerFrom(i + 1, 1, depth)
    ELSE IF bracesOn(i)[col] = "{" THEN closerFrom(i, col + 1, depth + 1)
    ELSE IF depth = 0 THEN i
    ELSE closerFrom(i, col + 1, depth - 1)

closingLine(p) == closerFrom(p[1], p[2] + 1, 0)

RECURSIVE strayClosers(_, _, _)
\* the lines holding a `}` met while no block is open
strayClosers(i, col, depth) ==
    IF i >= lineCount THEN {}
    ELSE IF col > Len(bracesOn(i)) THEN strayClosers(i + 1, 1, depth)
    ELSE IF bracesOn(i)[col] = "{" THEN strayClosers(i, col + 1, depth + 1)
    ELSE IF depth = 0 THEN {i} \cup strayClosers(i, col + 1, 0)
    ELSE strayClosers(i, col + 1, depth - 1)

unclosedIfs ==
    {h \in 0..(lineCount - 1) :
       /\ lineAt(h).kind = "if" /\ bracesOn(h) = Open
       /\ closingLine(<<h, 1>>) = -1}
linesAfter(h) == {lineAt(i).text : i \in (h + 1)..(lineCount - 1)}

\* A `}` that nothing opened adds nothing to the block map, and the run of
\* an input that holds one returns.
C24_StrayCloserIgnored ==
    braceEngine =>
      /\ \A o \in DOMAIN braceMap :
           braceMap[o] \in strayClosers(0, 1, 0) => Len(bracesOn(braceMap[o])) > 1
      /\ Len(result) = 1 => Len(stack) = 0

\* C24: a `}` with no open `{` is ignored, and the block of an if whose `{`
\* is never closed is all the remaining lines: when its condition is false
\* none of them is executed.
C24_UnclosedBlockToEnd ==
    (braceEngine /\ Len(result) = 1) =>
      \A h \in unclosedIfs :
        \A k \in 1..Len(trace) :
          (trace[k].line = lineAt(h).text /\ trace[k].note = conditionNote(FALSE)) =>
            \A j \in (k + 1)..Len(trace) : trace[j].line \notin linesAfter(h)

balanced ==
    /\ strayClosers(0, 1, 0) = {}
    /\ \A p \in Openers : closingLine(p) # -1

\* The block map is right for every `{` that is the only one its line opens.
C25_OneOpenerPerLine ==
    (braceEngine /\ balanced) =>
      \A p \in Openers :
        (\A q \in Openers : q[1] = p[1] => q = p) =>
          p[1] \in DOMAIN braceMap /\ braceMap[p[1]] = closingLine(p)

\* C25: for a snippet with balanced braces the block map sends the line of
\* every `{` to the line of the `}` that closes it, also for `} else {` and
\* for lines that hold more than one brace.
C25_CompleteBlockMap ==
    (braceEngine /\ balanced) =>
      \A p \in Openers :
        p[1] \in DOMAIN braceMap /\ braceMap[p[1]] = closingLine(p)

(***************************************************************************)
(* C26, C27.  Binary expressions on the right of a declaration or          *)
(* assignment.                                                             *)
(***************************************************************************)
Arithmetic == {"+", "-", "*", "/"}
operatorsOf(expr) == {i \in 1..Len(expr) : expr[i].k = "op"}
assigns(line) ==
    line.kind \in {"declassign", "godecl", "rustdecl", "assign"} /\ ~line.lst
\* `a op b`
binaryLine(line) ==
    /\ assigns(line) /\ Len(exprOf(line)) = 3 /\ operatorsOf(exprOf(line)) = {2}
    /\ exprOf(line)[2].name \in Arithmetic
\* the payload {left, operator, right, result, target} of applying the
\* operator at position p to what stands before and after it
payload(line, p) ==
    LET expr == exprOf(line)
        leftValue == resolveExpr(SubSeq(expr, 1, p - 1), vars, arrays)
        rightValue == resolveExpr(SubSeq(expr, p + 1, Len(expr)), vars, arrays)
        res == applyOperator(leftValue, rightValue, expr[p].name)
    IN [left |-> numberString(leftValue), operator |-> expr[p].name,
        right |-> numberString(rightValue), result |-> res, target |-> line.tgt]
bindsAndRecords(line, p) ==
    /\ line.tgt \in DOMAIN vars' /\ vars'[line.tgt] = NumV(payload(line, p).result)
    /\ trace'[Len(trace')].op = <<payload(line, p)>>

\* The bare assignment of every engine and the `int` declaration of the Java
\* engine bind the result of `a op b` and record the operation.
C26_AssignmentsRecord ==
    [][(atLine /\ binaryLine(current)
        /\ (current.kind = "assign" \/ engine = "java")) =>
         bindsAndRecords(current, 2)]_allVars

\* C26: in every dialect engine a declaration or assignment whose right side
\* is `a op b` binds the target to the result of applying op to the resolved
\* operands and records the operation {left, operator, right, result,
\* target}; typed declarations as well as bare assignments.
C26_BinaryDeclarations ==
    [][(atLine /\ binaryLine(current)) => bindsAndRecords(current, 2)]_allVars

\* `a op1 b op2 c`
twoOperators(line) ==
    /\ assigns(line) /\ Len(exprOf(line)) = 5 /\ operatorsOf(exprOf(line)) = {2, 4}
parsed(line) == line.kind = "assign" \/ (engine = "java" /\ line.kind = "declassign")

\* parseBinary resolves both sides with resolveNumeric, and a division by
\* zero yields the left operand.
C27_DivisionByZero ==
    [][(atLine /\ binaryLine(current) /\ parsed(current)
        /\ current.op = "/" /\ resolveNumeric(current.b, vars, arrays) = 0) =>
         /\ vars'[current.tgt] = NumV(resolveNumeric(current.a, vars, arrays))
         /\ trace'[Len(trace')].op[1].result = resolveNumeric(current.a, vars, arrays)]_allVars

\* C27: parseBinary splits an expression at its first arithmetic operator:
\* for `a op1 b op2 c` the left operand is `a`, the operator op1 and the
\* right operand the remainder `b op2 c`; both sides are resolved with
\* resolveNumeric, and a division by zero yields the left operand.
C27_SplitAtFirstOperator ==
    [][(atLine /\ parsed(current)) =>
         /\ twoOperators(current) => bindsAndRecords(current, 2)
         /\ (binaryLine(current) /\ current.op = "/"
             /\ resolveNumeric(current.b, vars, arrays) = 0) =>
               vars'[current.tgt] = NumV(resolveNumeric(current.a, vars, arrays))]_allVars

(***************************************************************************)
(* C28.  The loop over a..b in its three forms.                            *)
(***************************************************************************)
RECURSIVE upTo(_, _)
\* a, a + 1, ..., b
upTo(a, b) == IF a > b THEN <<>> ELSE <<a>> \o upTo(a + 1, b)
RECURSIVE sumOf(_)
sumOf(s) == IF Len(s) = 0 THEN 0 ELSE Head(s) + sumOf(Tail(s))
returned == mode = "engine" /\ ai.at = "none" /\ Len(result) = 1
\* the run of the loop over a..b in the form f has returned
ranOver(f, a, b) == returned /\ input.lines = Inclusive(f, a, b)
\* what the three-clause loop leaves: the variable one past the bound, or at
\* its start when the range is empty
storeAfter(a, b) ==
    [s |-> NumV(sumOf(upTo(a, b))), i |-> NumV(IF a <= b THEN b + 1 ELSE a)]

\* The body runs for a, ..., b in the three forms: the output log is the same.
C28_SameValuesAndLog ==
    \A f \in InclusiveForms, r \in InclusiveRanges :
        ranOver(f[2], r[1], r[2]) =>
            /\ outputs = numberStrings(upTo(r[1], r[2]))
            /\ vars["s"] = storeAfter(r[1], r[2]).s

\* The Go-style loop leaves the store of the three-clause loop.
C28_GoAsCStyle ==
    \A f \in {"for3", "forgo"}, r \in InclusiveRanges :
        ranOver(f, r[1], r[2]) => vars = storeAfter(r[1], r[2])

\* C28: the Go-style loop `for i := a; i <= b; i++` and the Rust loop
\* `for i in a..=b` have the semantics of `for (int i = a; i <= b; i++)` with
\* the same body: the body runs for the same values of the loop variable
\* (i = b included, b + 1 excluded), and the output log and the variable
\* store after the loop are the same.
C28_SameAsCStyleLoop ==
    \A f \in InclusiveForms, r \in InclusiveRanges :
        ranOver(f[2], r[1], r[2]) =>
            /\ outputs = numberStrings(upTo(r[1], r[2]))
            /\ vars = storeAfter(r[1], r[2])

(***************************************************************************)
(* C29.  The range loop of the indentation engine.                         *)
(***************************************************************************)
\* max(0, floor(n)) for the bound as written: a literal, the literal
\* n + 1/2, the name n (bound to 2) or a name that nothing binds
countOf(bound) ==
    LET n == CASE bound.k \in {"num", "frac"} -> bound.n
               [] bound = Var("n") -> 2
               [] OTHER -> 0
    IN IF n > 0 THEN n ELSE 0
ranRange(r) == returned /\ input.lines = PyRange(r[1], r[2])
rangeEntries == {k \in 1..Len(trace) : trace[k].line = input.lines[2].text}

\* C29: `for i in range(n)` runs count = max(0, floor(resolved n))
\* iterations with i = 0, 1, ..., count - 1 in order and emits one loop entry
\* per iteration before the body of that iteration; a bound that resolves to
\* zero, to a negative number or to nothing yields no iteration and no loop
\* entry, and an assignment to i inside the body does not change the values i
\* takes in later iterations.
C29_RangeLoop ==
    \A r \in RangeBounds :
        ranRange(r) =>
            /\ rangeEntries = {3 * j - 1 : j \in 1..countOf(r[2])}
            /\ \A j \in 1..countOf(r[2]) :
                 /\ trace[3 * j - 1].after.val["i"] = NumV(j - 1)
                 /\ trace[3 * j].line = "print(i)"
                 /\ trace[3 * j].outputLine = <<numberString(j - 1)>>
                 /\ trace[3 * j + 1].after.val["i"] = NumV(7)
            /\ outputs = numberStrings(upTo(0, countOf(r[2]) - 1))
            /\ Len(trace) = 1 + 3 * countOf(r[2])

\* the loop over range(2.5) has run twice, its body assigning to i
C29_Witness ==
    /\ ranRange(<<"2.5", Frac(2)>>)
    /\ outputs = <<"0", "1">>
    /\ vars["i"] = NumV(7)

(***************************************************************************)
(* C30.  The output log as the entries record it.                          *)
(***************************************************************************)
logBefore(entries, k) == listContents(entries[k].outputsBefore, outputs)
logAfter(entries, k) == listContents(entries[k].outputsAfter, outputs)
extendsByAtMostOne(b, a) ==
    /\ Len(b) <= Len(a) /\ Len(a) <= Len(b) + 1
    /\ SubSeq(a, 1, Len(b)) = b
appendOnly(entries) ==
    \A k \in 1..Len(entries) :
        /\ extendsByAtMostOne(logBefore(entries, k), logAfter(entries, k))
        /\ k = 1 => logBefore(entries, k) = <<>>
        /\ k > 1 => logBefore(entries, k) = logAfter(entries, k - 1)

\* C30: in every engine the output log is append-only and fully recorded:
\* in each trace entry outputsBefore is a prefix of outputsAfter, which has
\* at most one more line; the first entry's outputsBefore is empty; and each
\* later entry's outputsBefore is the previous entry's outputsAfter.
C30_OutputLogAppendOnly ==
    mode = "engine" =>
        /\ appendOnly(trace)
        /\ Len(result) = 1 => appendOnly(result[1])

\* a run has returned a trace in which two entries added a line each and an
\* entry that prints nothing followed a print
C30_Witness ==
    /\ returned /\ Len(outputs) >= 2
    /\ \E k \in 2..Len(result[1]) :
         /\ logAfter(result[1], k - 1) # logBefore(result[1], k - 1)
         /\ logAfter(result[1], k) = logBefore(result[1], k)
         /\ Len(logBefore(result[1], k)) > 0

(***************************************************************************)
(* C31, C32.  The entry of a print and the entry of a line that nothing    *)
(* recognises.                                                             *)
(***************************************************************************)
CStylePrints == {"printf", "fmt.Printf", "println!", "Console.WriteLine", "fmt.Println"}
\* the line matches the print pattern of its engine
recognisedPrint(line) ==
    /\ line.kind = "print"
    /\ engine = "cstyle" => line.op \in CStylePrints
lastEntry == trace'[Len(trace')]
oneEntryMore == Len(trace') = Len(trace) + 1
storeKept ==
    /\ vars' = vars /\ arrays' = arrays
    /\ lastEntry.before = snapshotMap(vars) /\ lastEntry.after = snapshotMap(vars)
printsOneLine ==
    /\ oneEntryMore /\ storeKept
    /\ Len(outputs') = Len(outputs) + 1
    /\ SubSeq(outputs', 1, Len(outputs)) = outputs
    /\ lastEntry.outputsBefore = copyOutputs(outputs)
    /\ lastEntry.outputsAfter = copyOutputs(outputs')
    /\ lastEntry.outputLine = <<outputs'[Len(outputs')]>>

\* A print whose rendered text is not empty, and every print of the
\* indentation engine and of the Java engine, appends its line.
C31_PrintAppends ==
    [][(atLine /\ recognisedPrint(current)
        /\ (engine # "cstyle" \/ renderCStylePrint(current, vars, arrays) # "")) =>
         printsOneLine]_allVars

\* C31: a statement recognised as a print/output call produces exactly one
\* entry in which the store is unchanged, outputsAfter is outputsBefore with
\* exactly one line appended and outputLine is that line, for every rendered
\* text, the empty string included.
C31_PrintAppendsOneLine ==
    [][(atLine /\ recognisedPrint(current)) => printsOneLine]_allVars


\* the line matches no statement pattern and no control construct of its
\* engine
unrecognised(line) ==
    \/ line.kind \in {"plain", "rangeexcl"} /\ Len(line.br) = 0
    \/ line.kind = "print" /\ ~recognisedPrint(line)

\* C32: a line that matches no statement form and no control construct
\* produces exactly one entry with the execution label, in which the store
\* and the output log are unchanged, and the engine continues with the next
\* line.
C32_FallbackEntry ==
    [][(atLine /\ unrecognised(current)) =>
         /\ oneEntryMore /\ storeKept
         /\ lastEntry.line = current.text
         /\ lastEntry.action = label("Execution")
         /\ outputs' = outputs
         /\ lastEntry.outputsBefore = copyOutputs(outputs)
         /\ lastEntry.outputsAfter = copyOutputs(outputs)
         /\ Len(stack') = Len(stack)
         /\ stack'[Len(stack')].index = top.index + 1]_allVars

\* the run went past a line that nothing recognises
C32_Witness ==
    /\ returned
    /\ \E k \in 1..(Len(trace) - 1) :
         /\ unrecognised(lineAt(k))
         /\ trace[k + 1].line = lineAt(k).text
         /\ trace[k + 1].action = label("Execution")
         /\ k + 1 < Len(trace)

(***************************************************************************)
(* C33.  Entries that carry an operation.                                  *)
(***************************************************************************)
numbersIn(m) == {m[n].v : n \in {x \in DOMAIN m : m[x].t = "num"}}
literalsOf(line) ==
    {line.a.n, line.b.n, line.start.n} \cup {line.items[i].n : i \in DOMAIN line.items}
\* the numbers an operand of the entry can have resolved to
operandsOf(e) ==
    {0, 1} \cup numbersIn(e.before.val) \cup UNION {literalsOf(lines[i]) : i \in DOMAIN lines}
UpdateLabels ==
    {label("Updates variable with operator"), label("Update variable"),
     label("Increment"), label("Decrement")}
\* result = left operator right, after[target] = result, and nothing but the
\* target differs between before and after
selfConsistent(e) ==
    LET o == e.op[1] IN
    /\ \E l, r \in operandsOf(e) :
         /\ o.left = numberString(l) /\ o.right = numberString(r)
         /\ o.result = applyOperator(l, r, o.operator)
    /\ o.target \in DOMAIN e.after.val
    /\ e.after.val[o.target] = NumV(o.result)
    /\ DOMAIN e.after.val = DOMAIN e.before.val \cup {o.target}
    /\ \A n \in DOMAIN e.before.val \ {o.target} : e.after.val[n] = e.before.val[n]
withOperation == {k \in 1..Len(trace) : Len(trace[k].op) = 1}

\* Every operation is self-consistent, and the left operand of a compound
\* assignment or increment is the number the target held, 0 for a target
\* that holds no number.
C33_OperationOnNumbers ==
    mode = "engine" =>
        \A k \in withOperation :
            /\ selfConsistent(trace[k])
            /\ trace[k].action \in UpdateLabels =>
                 trace[k].op[1].left =
                   numberString(resolveNumericValue(
                       MapGet(trace[k].before.val, trace[k].op[1].target)))

\* C33: every entry that carries an operation is consistent: op.result is
\* op.left op.operator op.right (with x / 0 = x), after[op.target] is
\* op.result and no other binding differs between before and after; for a
\* compound assignment or increment op.left is the value before[op.target],
\* taken as 0 when the target is unbound.
C33_OperationConsistent ==
    mode = "engine" =>
        \A k \in withOperation :
            /\ selfConsistent(trace[k])
            /\ trace[k].action \in UpdateLabels =>
                 LET target == trace[k].op[1].target
                     held == trace[k].before.val
                 IN IF target \in DOMAIN held
                    THEN /\ held[target].t = "num"
                         /\ trace[k].op[1].left = numberString(held[target].v)
                    ELSE trace[k].op[1].left = "0"

(***************************************************************************)
(* C34.  resolveNumeric on every form of operand.                          *)
(***************************************************************************)
\* with nums = [10, 20, 2] and n = 1: what each operand of Operands is to
\* resolve to
Resolved == <<20, 0, 0, 2, 3, 3, 0, 0, 0, 0, 0, 1, 5>>
RECURSIVE sumTo(_, _)
sumTo(s, j) == IF j = 0 THEN 0 ELSE sumTo(s, j - 1) + s[j]
ranResolves == returned /\ [input EXCEPT !.locale = "en"] \in ResolveInputs

\* C34: resolveNumeric never fails and always returns a number: a numeric
\* literal yields its value, name.length / len(name) on a list binding the
\* list length, name[index] the element at the resolved index or 0 when the
\* index is out of range, a number binding its value, and every other token
\* (unbound name, list-valued name, unparsable text) 0.
C34_ResolveNumeric ==
    ranResolves =>
        /\ Len(trace) = 2 + Len(Operands)
        /\ \A j \in 1..Len(Operands) :
             /\ trace[2 + j].op[1].right = numberString(Resolved[j])
             /\ trace[2 + j].after.val["s"] = NumV(sumTo(Resolved, j))

\* every operand has been resolved, the element nums[nums[2]] included
C34_Witness ==
    /\ ranResolves
    /\ vars["s"] = NumV(34)
    /\ trace[6].op[1].right = "2"

(***************************************************************************)
(* C35.  The run of runMiniko ends.                                        *)
(***************************************************************************)
mkReturned == mode = "miniko" /\ Len(result) = 1
\* the step goes to an earlier line or stays on its line
jumpsBack == mode = "miniko" /\ pc' <= pc /\ pc' # pc
\* an `end` takes one off the counter of its loop and goes to the loop's body
endRepeats ==
    /\ mkLine.cmd = "end" /\ pc \in DOMAIN jumps.endToLoop
    /\ LET loopStart == jumps.endToLoop[pc] IN
         /\ loopStart \in DOMAIN loopCounters /\ loopStart \in DOMAIN loopCounters'
         /\ loopCounters'[loopStart] < loopCounters[loopStart]
         /\ pc' = loopStart + 1

\* C35: runMiniko terminates for every program whose loop counts are finite,
\* misnested or unbalanced if/endif/loop/end included: the program counter
\* stays within 0..number of lines, every backward jump is made by an `end`
\* that strictly decreases the counter of its matched loop, and the run ends
\* with the program counter at the number of lines.
C35_MinikoTerminates ==
    /\ [](mode = "miniko" => pc \in 0..lineCount)
    /\ [][jumpsBack => endRepeats]_allVars
    /\ [](mkReturned => pc = lineCount)
    /\ (mode = "miniko") ~> mkReturned

\* the misnested program has returned after its outer `end` went back
C35_Witness ==
    /\ mkReturned /\ input.lines = MkMisnested
    /\ \E k \in 1..Len(trace) : trace[k].at = 7 /\ trace[k].note = "repeat loop (1 left)"

(***************************************************************************)
(* C36.  The jump map.                                                     *)
(***************************************************************************)
opens(kind, i) ==
    IF kind = "if" THEN startsWithIfSpace(lineAt(i)) ELSE startsWithLoopSpace(lineAt(i))
closes(kind, i) ==
    IF kind = "if" THEN isEndifText(lineAt(i)) ELSE isEndText(lineAt(i))
RECURSIVE openBefore(_, _)
\* how many openers of the kind are still unmatched before line i
openBefore(kind, i) ==
    IF i = 0 THEN 0
    ELSE LET d == openBefore(kind, i - 1) IN
         IF opens(kind, i - 1) THEN d + 1
         ELSE IF closes(kind, i - 1) /\ d > 0 THEN d - 1
         ELSE d
\* the most recent opener before line e that is still unmatched there: the
\* last one with as many unmatched openers before it as remain after e
matchOf(kind, e) ==
    LET candidates == {s \in 0..(e - 1) :
                         opens(kind, s) /\ openBefore(kind, s) = openBefore(kind, e) - 1}
    IN CHOOSE s \in candidates : \A u \in candidates : u <= s
closers(kind) == {e \in 0..(lineCount - 1) : closes(kind, e) /\ openBefore(kind, e) > 0}
\* the pairs opener -> closer of a kind
pairsOf(kind) == {<<matchOf(kind, e), e>> : e \in closers(kind)}
asPairs(m) == {<<k, m[k]>> : k \in DOMAIN m}
inverted(ps) == {<<p[2], p[1]>> : p \in ps}
strayCloser(i) ==
    \/ lineAt(i).cmd = "endif" /\ i \notin {p[2] : p \in asPairs(jumps.ifToEnd)}
    \/ lineAt(i).cmd = "end" /\ i \notin DOMAIN jumps.endToLoop

\* C36: buildJumpMap matches each `endif` with the most recent still-unmatched
\* `if` and each `end` with the most recent still-unmatched `loop`, on two
\* independent stacks; loopToEnd and endToLoop are inverse maps, every mapped
\* opener is before its closer, and no line closes two openers; a closer with
\* no open opener adds no mapping and, when executed, is ignored: store,
\* output and loop counters are unchanged and the program counter advances
\* by one.
C36_JumpMap ==
    /\ [](mode = "miniko" =>
            /\ asPairs(jumps.ifToEnd) = pairsOf("if")
            /\ asPairs(jumps.loopToEnd) = pairsOf("loop")
            /\ asPairs(jumps.endToLoop) = inverted(asPairs(jumps.loopToEnd))
            /\ \A p \in asPairs(jumps.ifToEnd) \cup asPairs(jumps.loopToEnd) : p[1] < p[2]
            /\ \A p, q \in asPairs(jumps.ifToEnd) \cup asPairs(jumps.loopToEnd) :
                 p[2] = q[2] => p = q)
    /\ [][(mkRunning /\ strayCloser(pc)) =>
            /\ vars' = vars /\ outputs' = outputs /\ loopCounters' = loopCounters
            /\ pc' = pc + 1]_allVars

\* the run executed an `end` and an `endif` that nothing opened, in a program
\* that also holds matched pairs
C36_Witness ==
    /\ mkReturned /\ input.lines = MkUnbalanced
    /\ jumps.loopToEnd = (3 :> 4)
    /\ \E k \in 1..Len(trace) : trace[k].at = 5 /\ trace[k].note = ""
    /\ \E k \in 1..Len(trace) : trace[k].at = 1 /\ trace[k].note = "end if"

(***************************************************************************)
(* C37.  The store from one entry to the next.                             *)
(***************************************************************************)
\* the bindings an entry's map shows (a list-valued binding is its reference)
storeSeen(handle) == IF handle.live THEN vars ELSE handle.val
continuousAt(k) ==
    IF k = 1 THEN storeSeen(trace[1].before) = <<>>
    ELSE storeSeen(trace[k].before) = storeSeen(trace[k - 1].after)
continuous == \A k \in 1..Len(trace) : continuousAt(k)
hasGoFor == \E i \in 1..Len(input.lines) : input.lines[i].kind = "forgo"
\* the store is continuous in every trace of a source without a Go-style for
C37_ContinuousWithoutGoFor == (mode = "engine" /\ ~hasGoFor) => continuous

\* C37: in every trace of every engine the first entry's before is the empty
\* store and each later entry's before equals the previous entry's after.
C37_StoreContinuous == mode = "engine" => continuous

\* a run with a loop and assignments whose trace is continuous
C37_ContinuousWitness ==
    /\ returned /\ ~hasGoFor /\ continuous /\ Len(trace) >= 4
    /\ \E i \in 1..Len(input.lines) : input.lines[i].kind \in {"for3", "forjava", "forrange"}

(***************************************************************************)
(* C38.  The counter of a loop when execution arrives at its line.         *)
(***************************************************************************)
\* the step leaves line pc for the line after it, and that line is a loop
fallsIntoLoop ==
    /\ mode = "miniko" /\ pc' = pc + 1 /\ pc' < lineCount
    /\ lineAt(pc').cmd = "loop"
\* no counter of an earlier entry is stored for the loop execution falls into
noStaleCounter == [][fallsIntoLoop => pc' \notin DOMAIN loopCounters']_allVars
noCounterLeft == mkReturned => loopCounters = <<>>
\* in a program whose if and loop blocks are nested in each other, a loop is
\* entered without a stored counter and none is left at the end
C38_FreshWhenNested ==
    /\ [][(fallsIntoLoop /\ wellNested) => pc' \notin DOMAIN loopCounters']_allVars
    /\ [](mode = "miniko" /\ wellNested => noCounterLeft)
C38_NestedWitness ==
    /\ mkReturned /\ wellNested /\ loopCounters = <<>>
    /\ \E k \in 1..Len(trace) : trace[k].note = "repeat loop (1 left)"

\* C38: whenever execution falls into a `loop` line from the line before it,
\* no counter of an earlier entry into that loop is stored, so the counter is
\* initialised from the current value of the count operand; and no counter
\* remains stored when the run ends.
C38_FreshCounter == noStaleCounter /\ []noCounterLeft
\* the first half of C38 alone
C38_NoStaleCounter == noStaleCounter
\* the second half of C38 alone
C38_NoCounterLeft == noCounterLeft

(***************************************************************************)
(* C39.  The result and the path that settled the promise.                 *)
(***************************************************************************)
\* the step calls resolve for the first time
settles == mode = "sandbox" /\ ~settled /\ Len(sandbox'.promise) = 1
delivered == callerResult'[1]
logsInFlight == Len(SelectSeq(sandbox.queue, LAMBDA m : m.type = "log"))
\* the log lines that have reached the page, in the order they arrived
receivedLogs == [i \in 1..(sandbox.posted - logsInFlight) |-> logText(i)]
settledByTimer == sandbox'.settledBy = "timer"
settledByError == sandbox'.settledBy = "error"
settledByMessage == sandbox'.settledBy = "message"
\* what every path guarantees, with the timer path only implying timedOut
pathFacts ==
    /\ settledByTimer => delivered.timedOut /\ delivered.error = <<>>
    /\ settledByError => delivered.error = <<"Uncaught">> /\ ~delivered.timedOut
    /\ settledByMessage => /\ delivered.error = Head(sandbox.queue).error
                           /\ delivered.timedOut = Head(sandbox.queue).timedOut
    /\ delivered.logs = receivedLogs
    /\ sandbox'.terminated
    /\ ~settledByTimer => sandbox'.timer = "cleared"
\* the result agrees with the settling path in everything but the converse
\* for timedOut
C39_ResultOfPath == [][settles => pathFacts]_allVars
\* the completion message of a script that had logged settled the promise
C39_PathWitness ==
    /\ mode = "sandbox" /\ settled /\ sandbox.settledBy = "message"
    /\ ~sandbox.scriptPosted /\ sandbox.promise[1].error = <<"Error: boom">>
    /\ callerResult[1].logs = <<logText(1)>> /\ sandbox.timer = "cleared"

\* C39: the delivered result is consistent with the path that settled the
\* promise: timedOut is true exactly when the timer settled it, and then
\* error is null; an error event gives its message with timedOut false; the
\* completion message gives the error and timedOut the worker sent; logs
\* holds the lines received before settling, in arrival order; the worker is
\* terminated, and off the timeout path the timer is cleared.
C39_ResultConsistent ==
    [][settles => /\ pathFacts
                  /\ delivered.timedOut <=> settledByTimer]_allVars

(***************************************************************************)
(* C40.  The lines buildJumpMap tests and the lines the dispatcher runs.   *)
(***************************************************************************)
controlCmds == {"if", "endif", "loop", "end"}
\* the branch of buildJumpMap's forEach that line i takes
registeredAs(i) ==
    CASE opens("if", i) -> "if"
      [] closes("if", i) -> "endif"
      [] opens("loop", i) -> "loop"
      [] closes("loop", i) -> "end"
      [] OTHER -> "none"
allLines == 0..(lineCount - 1)
\* every line buildJumpMap registers is dispatched as the kind it was
\* registered as
C40_RegisteredAreDispatched ==
    mode = "miniko" =>
      \A i \in allLines : registeredAs(i) # "none" => lineAt(i).cmd = registeredAs(i)
\* the run reached a registered `if` written with a space and executed it
C40_RegisteredWitness ==
    /\ mkRunning /\ input.lines = MkNestedIf /\ pc = 1
    /\ registeredAs(pc) = "if" /\ mkLine.cmd = "if"

\* C40: every line the dispatcher executes as `if`, `endif`, `loop` or `end`
\* is registered as that kind by buildJumpMap, and every line buildJumpMap
\* registers is dispatched as that kind.
C40_SameClassification ==
    /\ C40_RegisteredAreDispatched
    /\ (mkRunning /\ mkLine.cmd \in controlCmds) => registeredAs(pc) = mkLine.cmd

====
